---- MODULE Spec2Model ----
(***************************************************************************)
(* Model of the durable execution core of browser-automation-go:           *)
(*   - BrowserAutomationWorkflow (pkg/temporal/workflows) and the          *)
(*     activities it schedules (pre-generation, browser initialisation,    *)
(*     action execution, failure screenshot, deferred close);              *)
(*   - the engine's retry policy, activity timeouts and cancellation;      *)
(*   - the API handlers ExecuteWorkflow, CancelRun, StreamRunUpdates and    *)
(*     the workflow_runs row they persist.                                 *)
(* Strings of the program (generated code, file paths) are sequences of    *)
(* tokens, so that prefix and substring tests are computed, not assumed.   *)
(***************************************************************************)
EXTENDS Integers, Sequences, FiniteSets, TLC

\* ------------------------------------------------------------------ bounds
MaxActions == 2
MaxRetryAttempts == 2
\* Attempts the model follows when the retry policy sets no maximum.
MaxEngineAttempts == 3
\* Largest number of run-configs given to the parallel workflow.
MaxRuns == 3
\* Largest number of actions the parser hands to the extractor.
MaxEvents == 3

\* ------------------------------------------------------- program constants
StatusPending == "pending"
StatusRunning == "running"
StatusSuccess == "success"
StatusFailed == "failed"
StatusCanceled == "canceled"

ActionNavigate == "navigate"
ActionClick == "click"
ActionInput == "input"
ActionFocus == "focus"
ActionBlur == "blur"

RankHigh == "High"
RankMedium == "Medium"
RankLow == "Low"

ActionKeypress == "keypress"
ActionDblClick == "dblclick"
ActionSubmit == "submit"
ActionScroll == "scroll"
ActionRightClick == "rightclick"
ActionSelect == "select"
ActionMediaPlay == "media_play"
MediaActions == {"media_play", "media_pause", "media_seek"}

ToleranceLow == 0
ToleranceMedium == 1
ToleranceHigh == 2

NonRetryableErrorTypes == {"FatalBrowserError", "InvalidSelectorError"}

PathSeparator == "/"

\* Errors an activity can end with.  The first two are produced by the
\* activities themselves, the next ones come from the browser driver, the last
\* two from the engine.
ErrSessionNotFound == "browser session not found"
ErrReadGeneratedCode == "failed to read generated code"
ErrElementNotFound == "element not found"
ErrTimeout == "TimeoutError"
ErrCanceled == "CanceledError"

\* --------------------------------------------------------------- utilities
SeqUpTo(S, n) == UNION {[1..k -> S] : k \in 0..n}

MaxOf(S) == IF S = {} THEN 0 ELSE CHOOSE m \in S : \A x \in S : x <= m

HasPrefix(s, p) == Len(s) >= 1 /\ s[1] = p

Contains(s, c) == \E k \in 1..Len(s) : s[k] = c

\* ----------------------------------------------------------------- inputs
\* The semantic actions a run may be given: kind and interaction rank.
ActionChoices ==
    { [ActionType |-> ActionNavigate, InteractionRank |-> RankHigh],
      [ActionType |-> ActionClick, InteractionRank |-> RankHigh],
      [ActionType |-> ActionInput, InteractionRank |-> RankLow] }

\* What the driver does with one attempt of an action: it succeeds, returns an
\* error of some type, or hangs until the start-to-close timeout.
DriverOutcomes ==
    {"ok", ErrElementNotFound, "FatalBrowserError", "InvalidSelectorError", "hang"}

SessionIDs == {"s1"}

\* The environment of a run: what the provider, the file system, the driver
\* and the screenshot may do.  A specification fixes the environment it lets
\* the run meet.
\*   provAvail  provider availability seen by pre-generation
\*   mkdirOk    whether the generated-code directory can be created
\*   genFails   whether single generation calls of pre-generation may fail
\*   writeFails whether single file writes of pre-generation may fail
\*   provUp     provider availability seen by an action attempt
\*   genOk      whether the on-the-fly generation call succeeds
\*   drv        what the driver does with an attempt
\*   lingers    whether a timed-out attempt goes on running
\*   shotOk     whether the failure screenshot can be taken
CoreEnv ==
    [provAvail |-> BOOLEAN, mkdirOk |-> BOOLEAN, genFails |-> FALSE,
     writeFails |-> FALSE, provUp |-> {TRUE}, genOk |-> {TRUE},
     drv |-> DriverOutcomes, lingers |-> {FALSE}, shotOk |-> BOOLEAN]

TimeoutEnv ==
    [provAvail |-> {TRUE}, mkdirOk |-> {TRUE}, genFails |-> FALSE,
     writeFails |-> FALSE, provUp |-> {TRUE}, genOk |-> {TRUE},
     drv |-> {"ok", "hang"}, lingers |-> BOOLEAN, shotOk |-> {TRUE}]

CodegenEnv ==
    [provAvail |-> BOOLEAN, mkdirOk |-> BOOLEAN, genFails |-> TRUE,
     writeFails |-> TRUE, provUp |-> BOOLEAN, genOk |-> BOOLEAN,
     drv |-> {"ok", ErrElementNotFound}, lingers |-> {FALSE}, shotOk |-> {TRUE}]

VARIABLES
    input,             \* models.WorkflowInput: Actions, RetryAttempts
    wfpc,              \* position of the workflow function
    i,                 \* loop index over input.Actions (1-based)
    result,            \* models.WorkflowResult, as served by getProgress
    broke,             \* the loop was left by the break of line 119
    cancelRequested,   \* the engine cancelled the workflow context
    cancelAt,          \* actions completed at the cancellation, -1 if none
    attempts,          \* attempts made of each action's activity
    pendingErr,        \* error Get returned for action i, until it is recorded
    preGeneratedCode,  \* PreGeneratedCode.ActionCodes: sequence id -> code
    files,             \* generated_code/<workflow>/action_<k>.go: content
    resolution,        \* code resolution of the latest attempt of an action,
                       \* and the error PreGenerateCodeActivity returned
    sessions,          \* browserPool.sessions (the keys)
    sessionID,         \* browserSession.SessionID held by the workflow
    closeInvoked,      \* number of CloseBrowserActivity invocations
    zombies,           \* actions with a timed-out attempt still running
    lastEffect,        \* latest page effect: <<action, highest action begun by then>>
    stored,            \* semantic_actions rows of the workflow definition
    dbRun,             \* the workflow_runs row of the run
    execPc,            \* position of the ExecuteWorkflow handler
    cancelPc,          \* position of the CancelRun handler
    wsState,           \* the run's websocket stream: none, open, closed, gone
    lastStatus,        \* StreamRunUpdates: status of the last message sent
    lastActionCount,   \* StreamRunUpdates: result count of the last message sent
    wsLast,            \* last run_update message written to the stream
    par,               \* ParallelBrowserAutomationWorkflow: its state and its children
    ext                \* Extractor: parsed actions, tolerance, results of the pipeline

wfVars ==
    <<input, wfpc, i, result, broke, cancelRequested, cancelAt, attempts, pendingErr,
      preGeneratedCode, files, resolution, sessions, sessionID,
      closeInvoked, zombies, lastEffect>>

apiVars == <<stored, dbRun, execPc, cancelPc, wsState, lastStatus, lastActionCount, wsLast>>

parVars == <<par>>

extVars == <<ext>>

vars == <<wfVars, apiVars, parVars, extVars>>

N == Len(input.Actions)

NoCode == <<>>

\* ------------------------------------------------------ template generator
\* llm.GenerateCodeFromAction: every template starts with a "// ..." comment
\* line, followed by the driver call for the action kind.
GenerateCodeFromAction(action) == <<"/", "/", action.ActionType>>

\* Code returned by a provider's GenerateBrowserCode.
LLMCode == <<"page", "MustElement">>

\* filepath.Abs(generated_code/<workflowID>/action_<seq>.go)
AbsPath(seq) == <<"/", "generated_code", "/", "action", ToString(seq)>>

\* ---------------------------------------------------------- retry policy
\* The engine retries a failed attempt unless the error type is listed as
\* non-retryable or MaximumAttempts attempts have been made; a MaximumAttempts
\* of 0 is the engine's "no maximum".
RetryPolicyOffByOne(err, made, maximumAttempts) ==
    /\ err \notin NonRetryableErrorTypes
    /\ (maximumAttempts = 0 \/ made <= maximumAttempts)

RetryPolicyAllows(err, made, maximumAttempts) ==
    /\ err \notin NonRetryableErrorTypes
    /\ (maximumAttempts = 0 \/ made < maximumAttempts)

\* --------------------------------------------------- continue-on-failure
shouldContinueOnlyOnLowRank(action) == action.InteractionRank = RankLow

shouldContinueOnFailure(action) ==
    IF action.InteractionRank = RankLow THEN TRUE
    ELSE IF action.ActionType \in {ActionNavigate, ActionInput} THEN FALSE
    ELSE TRUE

\* ------------------------------------------------------------ final status
\* Lines 136-149: unless already failed, success iff every result is success.
FinalStatusIgnoringResults(res) ==
    IF res.Status # StatusFailed THEN StatusSuccess ELSE res.Status

FinalStatus(res) ==
    IF res.Status # StatusFailed
    THEN IF \A k \in 1..Len(res.ActionResults) :
                res.ActionResults[k].Status = StatusSuccess
         THEN StatusSuccess
         ELSE StatusFailed
    ELSE res.Status

\* ------------------------------------------------------ PreGenerateCode
\* PreGenerateCodeActivity for the given environment: provider availability,
\* directory creation, the generation calls that fail, the file writes that fail.
PreGenerateCodeActivity(actions, provAvail, mkdirOk, genFail, writeFail) ==
    LET n == Len(actions)
        code(k) == IF k \in genFail THEN GenerateCodeFromAction(actions[k])
                   ELSE LLMCode
    IN  IF ~provAvail
        THEN [err |-> "",
              ActionCodes |-> [k \in 1..n |-> GenerateCodeFromAction(actions[k])],
              written |-> [k \in 1..n |-> NoCode],
              fellBack |-> [k \in 1..n |-> TRUE]]
        ELSE IF ~mkdirOk
        THEN [err |-> "mkdir",
              ActionCodes |-> [k \in 1..n |-> NoCode],
              written |-> [k \in 1..n |-> NoCode],
              fellBack |-> [k \in 1..n |-> FALSE]]
        ELSE [err |-> "",
              ActionCodes |-> [k \in 1..n |->
                                 IF k \in writeFail THEN NoCode ELSE AbsPath(k)],
              written |-> [k \in 1..n |->
                                 IF k \in writeFail THEN NoCode ELSE code(k)],
              fellBack |-> [k \in 1..n |-> k \in genFail]]

\* ------------------------------------------- ExecuteBrowserActionActivity
\* os.ReadFile of a path: the content of the file written for it, if any.
ReadFile(path, fs) ==
    IF \E k \in DOMAIN fs : AbsPath(k) = path /\ fs[k] # NoCode
    THEN [ok |-> TRUE,
          content |-> fs[CHOOSE k \in DOMAIN fs : AbsPath(k) = path /\ fs[k] # NoCode]]
    ELSE [ok |-> FALSE, content |-> NoCode]

LooksLikePath(code) == HasPrefix(code, "/") \/ Contains(code, PathSeparator)

\* A resolution step that reads every code string as a file path.
ResolveCodeAsPathOnly(action, generatedCode, fs, provUp, genOk) ==
    LET f == ReadFile(generatedCode, fs)
    IN  IF f.ok THEN [err |-> "", code |-> f.content]
        ELSE [err |-> ErrReadGeneratedCode, code |-> NoCode]

\* Lines 562-591: the code-resolution step.
ResolveCode(action, generatedCode, fs, provUp, genOk) ==
    IF generatedCode # NoCode
    THEN IF LooksLikePath(generatedCode)
         THEN LET f == ReadFile(generatedCode, fs)
              IN  IF f.ok THEN [err |-> "", code |-> f.content]
                  ELSE [err |-> ErrReadGeneratedCode, code |-> NoCode]
         ELSE [err |-> "", code |-> generatedCode]
    ELSE IF provUp
         THEN IF genOk THEN [err |-> "", code |-> LLMCode]
              ELSE [err |-> "", code |-> GenerateCodeFromAction(action)]
         ELSE [err |-> "", code |-> GenerateCodeFromAction(action)]

\* One attempt of the activity: session lookup, code resolution, execution.
ExecuteBrowserActionActivity(action, generatedCode, fs, pool, sid, provUp, genOk, drv) ==
    IF sid \notin pool
    THEN [err |-> ErrSessionNotFound, code |-> NoCode, resolveErr |-> FALSE,
          ran |-> FALSE]
    ELSE LET rc == ResolveCode(action, generatedCode, fs, provUp, genOk)
         IN  IF rc.err # ""
             THEN [err |-> rc.err, code |-> NoCode, resolveErr |-> TRUE, ran |-> FALSE]
             ELSE IF drv = "ok"
             THEN [err |-> "", code |-> rc.code, resolveErr |-> FALSE, ran |-> TRUE]
             ELSE IF drv = "hang"
             THEN [err |-> ErrTimeout, code |-> rc.code, resolveErr |-> FALSE,
                   ran |-> TRUE]
             ELSE [err |-> drv, code |-> rc.code, resolveErr |-> FALSE, ran |-> TRUE]

\* The code this attempt resolves was produced by the template generator
\* standing in for a provider that was unavailable or whose call failed.
FellBack(action, generatedCode, fs, provUp, genOk) ==
    IF generatedCode = NoCode THEN ~(provUp /\ genOk)
    ELSE \/ generatedCode = GenerateCodeFromAction(action)
         \/ ReadFile(generatedCode, fs).content = GenerateCodeFromAction(action)

NoResolution == [kind |-> "none", fellBack |-> FALSE, pregenErr |-> ""]

ResolutionKind(action, r) ==
    IF r.resolveErr THEN "readerr"
    ELSE IF ~r.ran THEN "none"
    ELSE IF r.code = GenerateCodeFromAction(action) THEN "template"
    ELSE "llm"

\* ------------------------------------------------------------------- Init
EmptyResult == [Status |-> "", ActionResults |-> <<>>, ErrorMessage |-> <<>>]

InitWorkflowState(inp, pc) ==
    /\ input = inp
    /\ wfpc = pc
    /\ i = 1
    /\ result = EmptyResult
    /\ broke = FALSE
    /\ cancelRequested = FALSE
    /\ cancelAt = -1
    /\ attempts = [k \in 1..Len(inp.Actions) |-> 0]
    /\ pendingErr = ""
    /\ preGeneratedCode = [k \in 1..Len(inp.Actions) |-> NoCode]
    /\ files = [k \in 1..Len(inp.Actions) |-> NoCode]
    /\ resolution = NoResolution
    /\ sessions = {}
    /\ sessionID = ""
    /\ closeInvoked = 0
    /\ zombies = {}
    /\ lastEffect = <<0, 0>>

NoRun ==
    [status |-> "none", error_message |-> <<>>, started_at |-> FALSE,
     completed_at |-> FALSE, temporal_workflow_id |-> FALSE]

NoMessage == [status |-> "", count |-> 0, sent |-> FALSE, prevStatus |-> "", prevCount |-> 0]

InitApiState(acts) ==
    /\ stored = acts
    /\ dbRun = NoRun
    /\ execPc = "idle"
    /\ cancelPc = "idle"
    /\ wsState = "none"
    /\ lastStatus = ""
    /\ lastActionCount = 0
    /\ wsLast = NoMessage

\* The parallel workflow before it is started.
NoPar ==
    [pc |-> "none", RunConfigs |-> <<>>, capture |-> "iteration",
     child |-> <<>>, childResult |-> <<>>, handled |-> {}, Results |-> <<>>]

\* The extractor before a recording is given to it.
NoExt ==
    [stage |-> "none", tolerance |-> 0, parsed |-> <<>>, deduped |-> <<>>,
     debounced |-> <<>>, out |-> <<>>, again |-> <<>>]

WorkflowInputs ==
    { [Actions |-> as, RetryAttempts |-> r] :
        as \in SeqUpTo(ActionChoices, MaxActions), r \in 0..MaxRetryAttempts }

Init ==
    \E inp \in WorkflowInputs :
        /\ InitWorkflowState(inp, "start")
        /\ InitApiState(inp.Actions)
        /\ par = NoPar
        /\ ext = NoExt

\* --------------------------------------------------------------- workflow
\* Lines 13-45: the result is created with status running and getProgress is
\* registered; the first suspension point is the pre-generation activity.
WorkflowBegin ==
    /\ wfpc = "start"
    /\ result' = [Status |-> StatusRunning, ActionResults |-> <<>>,
                  ErrorMessage |-> <<>>]
    /\ wfpc' = "pregen"
    /\ UNCHANGED <<input, i, broke, cancelRequested, cancelAt, attempts, pendingErr,
                   preGeneratedCode, files, resolution, sessions, sessionID,
                   closeInvoked, zombies, lastEffect>>
    /\ UNCHANGED <<apiVars, parVars, extVars>>

\* Lines 47-61: pre-generation; its failure leaves an empty code map.  With the
\* context cancelled the activity is not scheduled and Get returns the
\* cancellation error.
PreGenerateCodeIn(E) ==
    /\ wfpc = "pregen"
    /\ \E provAvail \in E.provAvail, mkdirOk \in E.mkdirOk,
          genFail \in (IF E.genFails THEN SUBSET (1..N) ELSE {{}}),
          writeFail \in (IF E.writeFails THEN SUBSET (1..N) ELSE {{}}) :
          LET out == PreGenerateCodeActivity(input.Actions, provAvail, mkdirOk,
                                             genFail, writeFail)
          IN  /\ IF cancelRequested \/ out.err # ""
                 THEN /\ preGeneratedCode' = [k \in 1..N |-> NoCode]
                      /\ UNCHANGED files
                 ELSE /\ preGeneratedCode' = out.ActionCodes
                      /\ files' = out.written
              /\ resolution' = [resolution EXCEPT
                                   !.pregenErr = IF cancelRequested THEN "" ELSE out.err]
    /\ wfpc' = "init"
    /\ UNCHANGED <<input, i, result, broke, cancelRequested, cancelAt, attempts,
                   pendingErr, sessions, sessionID, closeInvoked, zombies,
                   lastEffect>>
    /\ UNCHANGED <<apiVars, parVars, extVars>>

\* The code after the loop (lines 132-152) followed by the deferred call of
\* line 77, which is the next suspension point.
Finalize(res) == [res EXCEPT !.Status = FinalStatus(res)]

\* Lines 63-78: browser initialisation.  On failure the workflow returns
\* before the deferred close is registered.
InitializeBrowser ==
    /\ wfpc = "init"
    /\ \E ok \in BOOLEAN, sid \in SessionIDs :
          IF ok /\ ~cancelRequested
          THEN /\ sessions' = sessions \cup {sid}
               /\ sessionID' = sid
               /\ IF N = 0
                  THEN /\ result' = Finalize(result)
                       /\ wfpc' = "close"
                  ELSE /\ result' = result
                       /\ wfpc' = "loop"
          ELSE /\ result' = [result EXCEPT
                                !.Status = StatusFailed,
                                !.ErrorMessage = <<"Failed to initialize browser">>]
               /\ wfpc' = "done"
               /\ UNCHANGED <<sessions, sessionID>>
    /\ UNCHANGED <<input, i, broke, cancelRequested, cancelAt, attempts, pendingErr,
                   preGeneratedCode, files, resolution, closeInvoked,
                   zombies, lastEffect>>
    /\ UNCHANGED <<apiVars, parVars, extVars>>

\* Lines 127-130 and the loop head: after action i has been recorded, either
\* the loop goes on with action i+1 or it is left (break, or last action) and
\* the code after the loop runs up to the deferred close.
Advance(res, brk) ==
    IF brk \/ i = N
    THEN /\ result' = Finalize(res)
         /\ wfpc' = "close"
         /\ i' = i
    ELSE /\ result' = res
         /\ wfpc' = "loop"
         /\ i' = i + 1

Begun(att) == MaxOf({k \in DOMAIN att : att[k] > 0})

SuccessResultUnlabelled(k) ==
    [SequenceID |-> 0, ActionID |-> 0, Status |-> StatusSuccess, RetryCount |-> 0,
     ScreenshotPath |-> "", ErrorMessage |-> <<>>]

SuccessResult(k) ==
    [SequenceID |-> k, ActionID |-> k, Status |-> StatusSuccess, RetryCount |-> 0,
     ScreenshotPath |-> "", ErrorMessage |-> <<>>]

FailedResult(k, err, shot) ==
    [SequenceID |-> k, ActionID |-> k, Status |-> StatusFailed, RetryCount |-> 0,
     ScreenshotPath |-> shot, ErrorMessage |-> <<err>>]

\* Lines 81-100 and 121-124: one attempt of ExecuteBrowserActionActivity for
\* action i, scheduled by the engine under the retry policy.  A successful
\* attempt is recorded at once; a failed one is retried if the policy allows,
\* otherwise the workflow goes on to the failure screenshot.
AttemptActionIn(E) ==
    /\ wfpc = "loop"
    /\ ~cancelRequested
    /\ \E provUp \in E.provUp, genOk \in E.genOk, drv \in E.drv,
          lingers \in E.lingers :
          LET a == input.Actions[i]
              r == ExecuteBrowserActionActivity(a, preGeneratedCode[i], files,
                                                sessions, sessionID, provUp, genOk, drv)
              made == attempts[i] + 1
              att == [attempts EXCEPT ![i] = made]
          IN  /\ \/ made < MaxEngineAttempts
                 \/ r.err = ""
                 \/ ~RetryPolicyAllows(r.err, made, input.RetryAttempts)
              /\ attempts' = att
              /\ resolution' =
                     [kind |-> ResolutionKind(a, r),
                      fellBack |-> FellBack(a, preGeneratedCode[i], files, provUp, genOk),
                      pregenErr |-> resolution.pregenErr]
              /\ zombies' = IF r.err = ErrTimeout /\ lingers
                            THEN zombies \cup {i} ELSE zombies
              /\ lastEffect' = IF r.err = "" THEN <<i, Begun(att)>> ELSE lastEffect
              /\ pendingErr' = IF r.err # "" /\ ~RetryPolicyAllows(r.err, made, input.RetryAttempts)
                                THEN r.err ELSE ""
              /\ IF r.err = ""
                 THEN /\ Advance([result EXCEPT !.ActionResults =
                                     Append(@, SuccessResult(i))], FALSE)
                      /\ broke' = broke
                 ELSE IF RetryPolicyAllows(r.err, made, input.RetryAttempts)
                 THEN UNCHANGED <<result, wfpc, i, broke>>
                 ELSE /\ wfpc' = "shot"
                      /\ UNCHANGED <<result, i, broke>>
    /\ UNCHANGED <<input, cancelRequested, cancelAt, preGeneratedCode, files,
                   sessions, sessionID, closeInvoked>>
    /\ UNCHANGED <<apiVars, parVars, extVars>>

\* Line 96 with the workflow context cancelled: the activity is not scheduled
\* and Get returns the cancellation error.
CancelledAction ==
    /\ wfpc = "loop"
    /\ cancelRequested
    /\ pendingErr' = ErrCanceled
    /\ wfpc' = "shot"
    /\ UNCHANGED <<input, i, result, broke, cancelRequested, cancelAt, attempts,
                   preGeneratedCode, files, resolution, sessions, sessionID,
                   closeInvoked, zombies, lastEffect>>
    /\ UNCHANGED <<apiVars, parVars, extVars>>

\* TakeScreenshotActivity (lines 758-790): a path, or "" when it fails.
TakeScreenshotActivity(pool, sid, shotOk) ==
    IF sid \in pool /\ shotOk THEN "failure.png" ELSE ""

\* Lines 101-120: the failure branch.  The screenshot activity is called (it
\* is not scheduled when the context is cancelled), the failed result is
\* appended and the continue-on-failure rule is applied.
RecordFailureIn(E) ==
    /\ wfpc = "shot"
    /\ \E shotOk \in E.shotOk :
          LET a == input.Actions[i]
              shot == IF cancelRequested THEN ""
                      ELSE TakeScreenshotActivity(sessions, sessionID, shotOk)
              res == [result EXCEPT !.ActionResults =
                         Append(@, FailedResult(i, pendingErr, shot))]
          IN  IF ~shouldContinueOnFailure(a)
              THEN /\ broke' = TRUE
                   /\ Advance([res EXCEPT
                                 !.Status = StatusFailed,
                                 !.ErrorMessage =
                                     <<"Action", a.ActionType, "failed", pendingErr>>],
                              TRUE)
              ELSE /\ broke' = broke
                   /\ Advance(res, FALSE)
    /\ pendingErr' = ""
    /\ UNCHANGED <<input, cancelRequested, cancelAt, attempts,
                   preGeneratedCode, files, resolution, sessions, sessionID,
                   closeInvoked, zombies, lastEffect>>
    /\ UNCHANGED <<apiVars, parVars, extVars>>

\* CloseBrowserActivity (lines 427-445): closes the browser and deletes the
\* session; a missing session is a no-op.
CloseBrowserActivity(pool, sid) == pool \ {sid}

\* Lines 75-78: the deferred close is called with the workflow's own context.
\* When that context is cancelled the activity is not scheduled.
DeferredClose ==
    /\ wfpc = "close"
    /\ IF cancelRequested
       THEN UNCHANGED <<sessions, closeInvoked>>
       ELSE /\ sessions' = CloseBrowserActivity(sessions, sessionID)
            /\ closeInvoked' = closeInvoked + 1
    /\ wfpc' = "done"
    /\ UNCHANGED <<input, i, result, broke, cancelRequested, cancelAt, attempts,
                   pendingErr, preGeneratedCode, files, resolution, sessionID,
                   zombies, lastEffect>>
    /\ UNCHANGED <<apiVars, parVars, extVars>>

\* ----------------------------------------------------------------- engine
WorkflowOpen == wfpc \in {"start", "pregen", "init", "loop", "shot", "close"}

\* The engine cancels the workflow context; the workflow sees it at its next
\* suspension point.
CancelWorkflow ==
    /\ cancelRequested' = TRUE
    /\ cancelAt' = Len(result.ActionResults) + (IF wfpc = "shot" THEN 1 ELSE 0)

RequestCancel ==
    /\ WorkflowOpen
    /\ ~cancelRequested
    /\ CancelWorkflow
    /\ UNCHANGED <<input, wfpc, i, result, broke, attempts, pendingErr,
                   preGeneratedCode, files, resolution, sessions, sessionID,
                   closeInvoked, zombies, lastEffect>>
    /\ UNCHANGED <<apiVars, parVars, extVars>>

\* A timed-out attempt is not stopped by the engine: its goroutine goes on
\* driving the page (executeAction takes no context) and may still complete
\* its click, input or navigation while the session's page is open.
ZombieActs ==
    /\ \E k \in zombies :
          /\ sessionID \in sessions
          /\ lastEffect' = <<k, Begun(attempts)>>
          /\ zombies' = zombies \ {k}
    /\ UNCHANGED <<input, wfpc, i, result, broke, cancelRequested, cancelAt,
                   attempts, pendingErr, preGeneratedCode, files, resolution,
                   sessions, sessionID, closeInvoked>>
    /\ UNCHANGED <<apiVars, parVars, extVars>>

\* ------------------------------------------------------- specifications
\* Spec: the orchestration under driver errors, timeouts and cancellation.
PreGenerateCode == PreGenerateCodeIn(CoreEnv)

AttemptAction == AttemptActionIn(CoreEnv)

RecordFailure == RecordFailureIn(CoreEnv)

Next ==
    \/ WorkflowBegin
    \/ PreGenerateCode
    \/ InitializeBrowser
    \/ AttemptAction
    \/ CancelledAction
    \/ RecordFailure
    \/ DeferredClose
    \/ RequestCancel

Spec == Init /\ [][Next]_vars

\* SpecTimeout: attempts that hang until the start-to-close timeout and may
\* go on running afterwards.
PreGenerateCodeT == PreGenerateCodeIn(TimeoutEnv)

AttemptActionT == AttemptActionIn(TimeoutEnv)

RecordFailureT == RecordFailureIn(TimeoutEnv)

NextTimeout ==
    \/ WorkflowBegin
    \/ PreGenerateCodeT
    \/ InitializeBrowser
    \/ AttemptActionT
    \/ CancelledAction
    \/ RecordFailureT
    \/ DeferredClose
    \/ RequestCancel
    \/ ZombieActs

SpecTimeout == Init /\ [][NextTimeout]_vars

\* SpecCodegen: every way pre-generation and on-the-fly generation can go.
PreGenerateCodeG == PreGenerateCodeIn(CodegenEnv)

AttemptActionG == AttemptActionIn(CodegenEnv)

RecordFailureG == RecordFailureIn(CodegenEnv)

NextCodegen ==
    \/ WorkflowBegin
    \/ PreGenerateCodeG
    \/ InitializeBrowser
    \/ AttemptActionG
    \/ CancelledAction
    \/ RecordFailureG
    \/ DeferredClose
    \/ RequestCancel

SpecCodegen == Init /\ [][NextCodegen]_vars

\* ------------------------------------------------------------- database
TerminalStatuses == {StatusSuccess, StatusFailed, StatusCanceled}

\* CreateWorkflowRun: the row is inserted with the given status; the
\* timestamps are NULL and the engine ids are the empty strings of the struct.
CreateWorkflowRun(status) ==
    [status |-> status, error_message |-> <<>>, started_at |-> FALSE,
     completed_at |-> FALSE, temporal_workflow_id |-> FALSE]

\* UpdateWorkflowRunStatus: an UPDATE of status and error_message with no
\* condition on the current status; completed_at is set on a terminal status.
UpdateWorkflowRunStatus(row, status, errorMsg) ==
    IF row = NoRun THEN row
    ELSE [row EXCEPT !.status = status,
                     !.error_message = errorMsg,
                     !.completed_at = IF status \in TerminalStatuses THEN TRUE ELSE @]

\* UpdateWorkflowRunStarted: stores the engine ids and moves a pending run to
\* running, setting started_at; a run that has left pending keeps its status.
UpdateWorkflowRunStarted(row) ==
    IF row = NoRun THEN row
    ELSE IF row.status = StatusPending
    THEN [row EXCEPT !.status = StatusRunning,
                     !.started_at = TRUE,
                     !.temporal_workflow_id = TRUE]
    ELSE [row EXCEPT !.temporal_workflow_id = TRUE]

\* GetActionResults: no code path inserts into action_results.
GetActionResults == <<>>

\* ------------------------------------------------------- ExecuteWorkflow
\* Lines 1002-1015: focus/blur actions and low-rank clicks are removed.
FilterActions(actions) ==
    SelectSeq(actions,
              LAMBDA a : /\ a.ActionType \notin {ActionFocus, ActionBlur}
                         /\ ~(a.ActionType = ActionClick /\ a.InteractionRank = RankLow))

ApiRetryAttempts == 3

\* Lines 976-1031: the run row is created with status pending.
ExecCreateRun ==
    /\ execPc = "idle"
    /\ dbRun = NoRun
    /\ dbRun' = CreateWorkflowRun(StatusPending)
    /\ execPc' = "created"
    /\ UNCHANGED <<par, ext, stored, cancelPc, wsState, lastStatus, lastActionCount, wsLast>>
    /\ UNCHANGED wfVars

\* Lines 1049-1072: the workflow is started with the filtered actions; when
\* the engine refuses, the run is marked failed.
ExecStartWorkflow ==
    /\ execPc = "created"
    /\ \E ok \in BOOLEAN :
          IF ok
          THEN LET inp == [Actions |-> FilterActions(stored),
                           RetryAttempts |-> ApiRetryAttempts]
                   n == Len(inp.Actions)
               IN  /\ input' = inp
                   /\ wfpc' = "start"
                   /\ attempts' = [k \in 1..n |-> 0]
                   /\ preGeneratedCode' = [k \in 1..n |-> NoCode]
                   /\ files' = [k \in 1..n |-> NoCode]
                   /\ execPc' = "started"
                   /\ dbRun' = dbRun
          ELSE /\ dbRun' = UpdateWorkflowRunStatus(dbRun, StatusFailed,
                                                   <<"Failed to start workflow">>)
               /\ execPc' = "done"
               /\ UNCHANGED <<input, wfpc, attempts, preGeneratedCode, files>>
    /\ UNCHANGED <<i, result, broke, cancelRequested, cancelAt, pendingErr,
                   resolution, sessions, sessionID, closeInvoked, zombies, lastEffect>>
    /\ UNCHANGED <<par, ext, stored, cancelPc, wsState, lastStatus, lastActionCount, wsLast>>

\* Line 1075: the run is marked running.
ExecMarkStarted ==
    /\ execPc = "started"
    /\ dbRun' = UpdateWorkflowRunStarted(dbRun)
    /\ execPc' = "done"
    /\ UNCHANGED <<par, ext, stored, cancelPc, wsState, lastStatus, lastActionCount, wsLast>>
    /\ UNCHANGED wfVars

\* ------------------------------------------------------------- CancelRun
\* Lines 1142-1165: the run is looked up; if it carries an engine workflow id
\* the engine is asked to cancel, which it refuses for a closed workflow (the
\* handler then returns without touching the row).
CancelRunRequest ==
    /\ cancelPc = "idle"
    /\ dbRun # NoRun
    /\ IF dbRun.temporal_workflow_id
       THEN /\ WorkflowOpen
            /\ IF cancelRequested
               THEN UNCHANGED <<cancelRequested, cancelAt>>
               ELSE CancelWorkflow
       ELSE UNCHANGED <<cancelRequested, cancelAt>>
    /\ cancelPc' = "update"
    /\ UNCHANGED <<input, wfpc, i, result, broke, attempts, pendingErr,
                   preGeneratedCode, files, resolution, sessions, sessionID,
                   closeInvoked, zombies, lastEffect>>
    /\ UNCHANGED <<par, ext, stored, dbRun, execPc, wsState, lastStatus, lastActionCount, wsLast>>

\* Line 1167: the row is set to canceled.
CancelRunUpdate ==
    /\ cancelPc = "update"
    /\ dbRun' = UpdateWorkflowRunStatus(dbRun, StatusCanceled, <<"Cancelled by user">>)
    /\ cancelPc' = "idle"
    /\ UNCHANGED <<par, ext, stored, execPc, wsState, lastStatus, lastActionCount, wsLast>>
    /\ UNCHANGED wfVars

\* ------------------------------------------------------ StreamRunUpdates
\* Lines 1173-1190: a client connects; the handler starts polling.
StreamConnect ==
    /\ wsState = "none"
    /\ wsState' = "open"
    /\ lastStatus' = ""
    /\ lastActionCount' = 0
    /\ UNCHANGED <<par, ext, stored, dbRun, execPc, cancelPc, wsLast>>
    /\ UNCHANGED wfVars

\* Lines 1194-1195: the request context ends (the client went away).
StreamDisconnect ==
    /\ wsState = "open"
    /\ wsState' = "gone"
    /\ UNCHANGED <<par, ext, stored, dbRun, execPc, cancelPc, lastStatus, lastActionCount, wsLast>>
    /\ UNCHANGED wfVars

\* Lines 1245-1251: the first non-empty action error, for a failed run.
StreamErrorMsg(status, actionResults) ==
    IF status = StatusFailed
       /\ \E k \in 1..Len(actionResults) : actionResults[k].ErrorMessage # <<>>
    THEN actionResults[CHOOSE k \in 1..Len(actionResults) :
                          /\ actionResults[k].ErrorMessage # <<>>
                          /\ \A j \in 1..(k - 1) : actionResults[j].ErrorMessage = <<>>
                      ].ErrorMessage
    ELSE <<>>

\* Lines 1197-1223: what one tick observes.  The engine answers getProgress
\* for the run's workflow once it has registered the handler (also after the
\* workflow has closed); otherwise, or when the query fails, the row is read.
Observe(queryOk) ==
    IF queryOk /\ wfpc \notin {"none", "start"}
    THEN [seen |-> TRUE, status |-> result.Status, results |-> result.ActionResults]
    ELSE IF dbRun = NoRun
    THEN [seen |-> FALSE, status |-> "", results |-> <<>>]
    ELSE [seen |-> TRUE, status |-> dbRun.status, results |-> GetActionResults]

SendsAlways(status, n, lastSt, lastN) == TRUE

\* Line 1226: a message is sent if the status or the result count changed.
ShouldSend(status, n, lastSt, lastN) == status # lastSt \/ n # lastN

\* Lines 1196-1257: one tick of the poll loop.
StreamTick ==
    /\ wsState = "open"
    /\ \E queryOk \in BOOLEAN :
          LET o == Observe(queryOk)
              n == Len(o.results)
          IN  /\ o.seen
              /\ ShouldSend(o.status, n, lastStatus, lastActionCount)
              /\ wsLast' = [status |-> o.status, count |-> n, sent |-> TRUE,
                            prevStatus |-> lastStatus, prevCount |-> lastActionCount]
              /\ lastStatus' = o.status
              /\ lastActionCount' = n
              /\ IF o.status \in TerminalStatuses
                 THEN /\ dbRun' = UpdateWorkflowRunStatus(
                                      dbRun, o.status, StreamErrorMsg(o.status, o.results))
                      /\ wsState' = "closed"
                 ELSE UNCHANGED <<dbRun, wsState>>
    /\ UNCHANGED <<par, ext, stored, execPc, cancelPc>>
    /\ UNCHANGED wfVars

\* SpecApi: one run started through the API, cancelled and streamed.
ApiEnv ==
    [provAvail |-> {TRUE}, mkdirOk |-> {TRUE}, genFails |-> FALSE,
     writeFails |-> FALSE, provUp |-> {TRUE}, genOk |-> {TRUE},
     drv |-> {"ok", "FatalBrowserError"}, lingers |-> {FALSE}, shotOk |-> {TRUE}]

ClickHigh == [ActionType |-> ActionClick, InteractionRank |-> RankHigh]

StoredActionLists ==
    { <<>>,
      <<[ActionType |-> ActionNavigate, InteractionRank |-> RankHigh],
        [ActionType |-> ActionFocus, InteractionRank |-> RankLow],
        [ActionType |-> ActionClick, InteractionRank |-> RankLow]>>,
      <<ClickHigh, ClickHigh, ClickHigh, ClickHigh, ClickHigh>> }

InitApi ==
    \E acts \in StoredActionLists :
        /\ InitWorkflowState([Actions |-> <<>>, RetryAttempts |-> 0], "none")
        /\ InitApiState(acts)
        /\ par = NoPar
        /\ ext = NoExt

PreGenerateCodeA == PreGenerateCodeIn(ApiEnv)

AttemptActionA == AttemptActionIn(ApiEnv)

RecordFailureA == RecordFailureIn(ApiEnv)

NextApi ==
    \/ ExecCreateRun
    \/ ExecStartWorkflow
    \/ ExecMarkStarted
    \/ CancelRunRequest
    \/ CancelRunUpdate
    \/ StreamConnect
    \/ StreamDisconnect
    \/ StreamTick
    \/ WorkflowBegin
    \/ PreGenerateCodeA
    \/ InitializeBrowser
    \/ AttemptActionA
    \/ CancelledAction
    \/ RecordFailureA
    \/ DeferredClose

SpecApi == InitApi /\ [][NextApi]_vars

\* Steps the engine's worker takes on its own: the workflow and its activities.
EngineStep ==
    \/ WorkflowBegin
    \/ PreGenerateCodeA
    \/ InitializeBrowser
    \/ AttemptActionA
    \/ CancelledAction
    \/ RecordFailureA
    \/ DeferredClose

\* Steps a handler that is already running takes on its own: the rest of
\* ExecuteWorkflow and of CancelRun, and the ticker of an open stream.
HandlerStep ==
    \/ ExecStartWorkflow
    \/ ExecMarkStarted
    \/ CancelRunUpdate
    \/ StreamTick

\* SpecApiFair: SpecApi where the worker and the running handlers keep taking
\* steps; requests of clients (execute, cancel, connect, disconnect) are not
\* forced.
SpecApiFair == SpecApi /\ WF_vars(EngineStep) /\ WF_vars(HandlerStep)

\* ------------------------------------ ParallelBrowserAutomationWorkflow
\* Lines 237-240: the child workflow id is taken from the parent's input
\* alone; the position of the run-config is not part of it.
ChildWorkflowID(workflowID, idx) == <<workflowID, "child">>

\* The zero models.WorkflowResult of make([]models.WorkflowResult, n).
ZeroResult == [RunID |-> 0, Status |-> ""]

\* What a child run can end with: the result BrowserAutomationWorkflow
\* returns (it carries input.RunID), or an error of the child execution.
ChildOutcomes(runID) ==
    { [err |-> FALSE, res |-> [RunID |-> runID, Status |-> st]] :
          st \in {StatusSuccess, StatusFailed} }
    \cup { [err |-> TRUE, res |-> ZeroResult] }

\* The engine's rule for workflow ids: a start is accepted when no open
\* execution carries the id.  started: the positions accepted so far.
IdFree(workflowID, idx, started) ==
    \A j \in started : ChildWorkflowID(workflowID, j) # ChildWorkflowID(workflowID, idx)

RECURSIVE SpawnFrom(_, _, _, _)
\* Lines 248-261: ExecuteChildWorkflow for each run-config in order, all in
\* one workflow task; a start whose id is taken is rejected.
SpawnFrom(workflowID, idx, n, started) ==
    IF idx > n THEN started
    ELSE SpawnFrom(workflowID, idx + 1, n,
                   IF IdFree(workflowID, idx, started) THEN started \cup {idx} ELSE started)

\* Run-configs: the k-th carries run id k.
ParallelInputs == { [k \in 1..n |-> [RunID |-> k]] : n \in 0..MaxRuns }

\* The run-config the callback of lines 264-273 reads through the captured
\* loop variable: the one of its own iteration, or, where the loop variable
\* is shared by all iterations, the last one.
CapturedRunConfig(cfgs, idx, capture) ==
    IF capture = "iteration" THEN cfgs[idx] ELSE cfgs[Len(cfgs)]

InitParallel ==
    /\ InitWorkflowState([Actions |-> <<>>, RetryAttempts |-> 0], "none")
    /\ InitApiState(<<>>)
    /\ ext = NoExt
    /\ \E cfgs \in ParallelInputs, cap \in {"iteration", "loop"} :
          par = [NoPar EXCEPT !.pc = "start", !.RunConfigs = cfgs, !.capture = cap,
                              !.child = [k \in 1..Len(cfgs) |-> "none"],
                              !.childResult = [k \in 1..Len(cfgs) |-> ZeroResult],
                              !.Results = [k \in 1..Len(cfgs) |-> ZeroResult]]

\* Lines 233-276: the results slice is made and every child is requested.
\* Two child commands with one id in the same workflow task either get the
\* later start rejected or make the task fail, which blocks the workflow.
ParSpawn ==
    /\ par.pc = "start"
    /\ LET n == Len(par.RunConfigs)
           started == SpawnFrom("wf", 1, n, {})
       IN  \E taskFails \in BOOLEAN :
              IF taskFails /\ started # 1..n
              THEN par' = [par EXCEPT !.pc = "blocked"]
              ELSE /\ ~taskFails
                   /\ par' = [par EXCEPT
                          !.pc = "wait",
                          !.child = [k \in 1..n |->
                                        IF k \in started THEN "running" ELSE "rejected"]]
    /\ UNCHANGED <<wfVars, apiVars, extVars>>

\* A running child execution closes, with a result or with an error.
ChildCloses ==
    /\ par.pc = "wait"
    /\ \E k \in 1..Len(par.RunConfigs) :
          /\ par.child[k] = "running"
          /\ \E o \in ChildOutcomes(par.RunConfigs[k].RunID) :
                par' = [par EXCEPT !.child[k] = IF o.err THEN "error" ELSE "closed",
                                   !.childResult[k] = o.res]
    /\ UNCHANGED <<wfVars, apiVars, extVars>>

\* Lines 263-273, 279: one selector.Select: the callback of a ready future
\* stores the child's result, or a failed result when Get returns an error.
ParSelect ==
    /\ par.pc = "wait"
    /\ \E k \in 1..Len(par.RunConfigs) \ par.handled :
          /\ par.child[k] \in {"closed", "error", "rejected"}
          /\ par' = [par EXCEPT
                 !.handled = @ \cup {k},
                 !.Results[k] =
                     IF par.child[k] = "closed" THEN par.childResult[k]
                     ELSE [RunID |-> CapturedRunConfig(par.RunConfigs, k, par.capture).RunID,
                           Status |-> StatusFailed]]
    /\ UNCHANGED <<wfVars, apiVars, extVars>>

\* Lines 278-283: after one Select per run-config the workflow returns.
ParReturn ==
    /\ par.pc = "wait"
    /\ par.handled = 1..Len(par.RunConfigs)
    /\ par' = [par EXCEPT !.pc = "done"]
    /\ UNCHANGED <<wfVars, apiVars, extVars>>

NextParallel ==
    \/ ParSpawn
    \/ ChildCloses
    \/ ParSelect
    \/ ParReturn

SpecParallel == InitParallel /\ [][NextParallel]_vars

\* -------------------------------------------------------------- Extractor
\* A string value in the parts the URL functions look at: the text up to and
\* including "://", the text up to the first "/" or "?", the path from the
\* first "/", and the "&"-separated parameters after "?", each parameter being
\* the token sequence of its key.  A plain text t is Text(t).
Text(t) == [proto |-> "", host |-> t, path |-> "", query |-> <<>>]

TrackingParams == {"utm_", "fbclid", "gclid", "ref", "source", "sxsrf", "ved", "ei"}

IsTracking(key) == \E tp \in TrackingParams : HasPrefix(key, tp)

\* normalizeURL: without "?" the URL itself; else the base and the parameters
\* whose key starts with no tracking prefix.
normalizeURL(url) ==
    IF url.query = <<>> THEN url
    ELSE [url EXCEPT !.query = SelectSeq(url.query, LAMBDA k : ~IsTracking(k))]

EmptyDomain == <<"", <<>>>>

\* extractDomain: "https://" or "http://" is trimmed and the text up to the
\* first "/" is returned; without a path that text includes "?" and the
\* parameters, and for another scheme it is the scheme up to its "/".
extractDomain(u) ==
    IF u.proto \notin {"", "https://", "http://"} THEN <<u.proto, <<>>>>
    ELSE <<u.host, IF u.path = "" THEN u.query ELSE <<>>>>

isSameDomain(url1, url2) ==
    LET d1 == extractDomain(url1)
        d2 == extractDomain(url2)
    IN  d1 # EmptyDomain /\ d2 # EmptyDomain /\ d1 = d2

isInteractiveAction(t) ==
    t \in {ActionClick, ActionDblClick, ActionInput, ActionKeypress, ActionSubmit,
           ActionBlur, ActionFocus}

\* Lines 216-243: whether the loop skips the navigate curr.
SkipsNavigate(curr, prev, currentURL) ==
    /\ curr.ActionType = ActionNavigate
    /\ \/ /\ prev.ActionType = ActionNavigate
          /\ \/ normalizeURL(curr.Value) = normalizeURL(prev.Value)
             \/ isSameDomain(curr.Value, prev.Value)
       \/ /\ isInteractiveAction(prev.ActionType)
          /\ isSameDomain(curr.Value, currentURL)

RECURSIVE DedupFrom(_, _, _, _)
\* Lines 208-244: the loop from index idx with the result built so far.
DedupFrom(actions, idx, res, currentURL) ==
    IF idx > Len(actions) THEN res
    ELSE LET curr == actions[idx]
             prev == res[Len(res)]
         IN  IF SkipsNavigate(curr, prev, currentURL)
             THEN DedupFrom(actions, idx + 1, res, currentURL)
             ELSE DedupFrom(actions, idx + 1, Append(res, curr),
                            IF curr.ActionType = ActionNavigate
                            THEN curr.Value ELSE currentURL)

KeepsAllNavigations(actions) == actions

deduplicateNavigations(actions) ==
    IF Len(actions) = 0 THEN actions
    ELSE DedupFrom(actions, 2, <<actions[1]>>, actions[1].Value)

RECURSIVE RunEnd(_, _, _)
\* Lines 323-332: the last index of the run of inputs on selector sel that
\* directly follow index j.
RunEnd(actions, j, sel) ==
    IF /\ j < Len(actions)
       /\ actions[j + 1].ActionType = ActionInput
       /\ actions[j + 1].Selector = sel
    THEN RunEnd(actions, j + 1, sel)
    ELSE j

RECURSIVE DebounceFrom(_, _, _)
DebounceFrom(actions, idx, res) ==
    IF idx > Len(actions) THEN res
    ELSE LET curr == actions[idx]
             e == IF curr.ActionType = ActionInput
                  THEN RunEnd(actions, idx, curr.Selector) ELSE idx
         IN  DebounceFrom(actions, e + 1,
                          Append(res, [curr EXCEPT !.Value = actions[e].Value]))

debounceInputs(actions) == DebounceFrom(actions, 1, <<>>)

SelNone == <<>>
SelWindow == <<"window">>

\* An id or a class name is a sequence of one-character strings.
Letters ==
    {"a", "b", "c", "d", "e", "f", "g", "h", "i", "j", "k", "l", "m", "n", "o",
     "p", "q", "r", "s", "t", "u", "v", "w", "x", "y", "z"}

Digits == {"0", "1", "2", "3", "4", "5", "6", "7", "8", "9"}

HexDigits == {"a", "b", "c", "d", "e", "f"} \cup Digits

StartsWith(s, p) == Len(s) >= Len(p) /\ SubSeq(s, 1, Len(p)) = p

\* Lines 542-556: both a letter and a number occur in s.
containsNumbersAndLetters(s) ==
    /\ \E k \in 1..Len(s) : s[k] \in Letters
    /\ \E k \in 1..Len(s) : s[k] \in Digits

\* Lines 448-453: the four patterns of a dynamic class name.
IsDynamicClass(c) ==
    \/ \E k \in 2..Len(c) :
          /\ c[k] = "-"
          /\ \A j \in 1..(k - 1) : c[j] \in Letters
          /\ Len(c) - k >= 6
          /\ \A j \in (k + 1)..Len(c) : c[j] \in HexDigits
    \/ /\ Len(c) >= 5
       /\ SubSeq(c, 1, 4) = <<"c", "s", "s", "-">>
       /\ \A j \in 5..Len(c) : c[j] \in Letters \cup Digits
    \/ /\ Len(c) >= 2
       /\ c[1] = "_"
       /\ \A j \in 2..Len(c) : c[j] \in Letters \cup Digits
    \/ \E k \in 1..(Len(c) - 2) : {c[k], c[k + 1], c[k + 2]} \subseteq Digits

\* Lines 444-476: the first class that is not dynamic and has 3 to 29
\* characters, else the empty string.  classes is strings.Fields(classStr).
extractStaticClass(classes) ==
    LET ok == SelectSeq(classes, LAMBDA c : ~IsDynamicClass(c) /\ Len(c) > 2 /\ Len(c) < 30)
    IN  IF ok = <<>> THEN <<>> ELSE ok[1]

\* A target's attribute map: a key that is absent reads as the empty value.
AttrStr(target, key) == IF key \in DOMAIN target THEN target[key] ELSE ""

AttrSeq(target, key) == IF key \in DOMAIN target THEN target[key] ELSE <<>>

\* generateRobustSelector: the priority ladder of lines 398-441 (a target
\* holds at most one data-* attribute, data-testid).
generateRobustSelector(target) ==
    IF AttrStr(target, "AriaLabel") # ""
    THEN <<target.Tag, "aria-label", AttrStr(target, "AriaLabel")>>
    ELSE IF AttrStr(target, "Name") # ""
    THEN <<target.Tag, "name", AttrStr(target, "Name")>>
    ELSE IF AttrStr(target, "Placeholder") # ""
    THEN <<target.Tag, "placeholder", AttrStr(target, "Placeholder")>>
    ELSE IF AttrStr(target, "DataTestid") # ""
    THEN <<target.Tag, "data-testid", AttrStr(target, "DataTestid")>>
    ELSE IF /\ AttrSeq(target, "Id") # <<>>
            /\ ~containsNumbersAndLetters(AttrSeq(target, "Id"))
    THEN <<"#", AttrSeq(target, "Id")>>
    ELSE IF /\ AttrSeq(target, "Class") # <<>>
            /\ extractStaticClass(AttrSeq(target, "Class")) # <<>>
    THEN <<".", extractStaticClass(AttrSeq(target, "Class"))>>
    ELSE target.Selector

\* enrichSelectors on one action (the node registry lookup leaves the tag
\* and attributes the parser stored, which came from the same registry).
EnrichOne(action) ==
    IF action.Selector \in {SelWindow, SelNone}
    THEN IF action.Tag # "" /\ action.Name # "" /\ generateRobustSelector(action) # SelNone
         THEN [action EXCEPT !.Selector = generateRobustSelector(action)]
         ELSE action
    ELSE LET tagged ==
                 IF action.Tag # "" THEN action
                 ELSE IF action.ActionType = ActionInput
                 THEN [action EXCEPT !.Tag = "input"]
                 ELSE IF action.ActionType \in {ActionClick, ActionDblClick}
                 THEN [action EXCEPT !.Tag = "element"]
                 ELSE action
             robust == generateRobustSelector(tagged)
         IN  IF robust # SelNone /\ robust # tagged.Selector
             THEN [tagged EXCEPT !.Selector = robust]
             ELSE tagged

enrichSelectors(actions) == [k \in 1..Len(actions) |-> EnrichOne(actions[k])]

\* A filter that looks at the rank and the tolerance only.
KeepsByRankOnly(action, tolerance) ==
    \/ tolerance = ToleranceHigh
    \/ tolerance = ToleranceMedium /\ action.InteractionRank \in {RankHigh, RankMedium}
    \/ tolerance = ToleranceLow /\ action.InteractionRank = RankHigh

\* filterLowValueActions: whether the action is kept under the tolerance.
KeepsAction(action, tolerance) ==
    /\ ~(action.ActionType = ActionInput /\ action.Selector = SelNone)
    /\ ~(action.Tag = "" /\ action.ActionType # ActionNavigate)
    /\ action.ActionType \notin MediaActions
    /\ action.ActionType \notin {ActionFocus, ActionBlur}
    /\ \/ tolerance = ToleranceHigh
       \/ tolerance = ToleranceMedium /\ action.InteractionRank \in {RankHigh, RankMedium}
       \/ tolerance = ToleranceLow /\ action.InteractionRank = RankHigh

\* A filter that keeps only rank High whatever the tolerance.
KeepsHighRankOnly(actions, tolerance) ==
    SelectSeq(actions, LAMBDA a : KeepsAction(a, ToleranceLow))

filterLowValueActions(actions, tolerance) ==
    SelectSeq(actions, LAMBDA a : KeepsAction(a, tolerance))

KeepsSequenceIDs(actions) == actions

resequence(actions) ==
    [k \in 1..Len(actions) |-> [actions[k] EXCEPT !.SequenceID = k]]

\* ExtractActions after the parser: the five post-processing steps in order.
PostProcess(actions, tolerance) ==
    resequence(filterLowValueActions(
        enrichSelectors(debounceInputs(deduplicateNavigations(actions))), tolerance))

\* URLs of navigate actions.
Google == [proto |-> "https://", host |-> "google.com", path |-> "", query |-> <<>>]

URLs ==
    { Google,
      [Google EXCEPT !.path = "/search", !.query = <<<<"q">>>>],
      [Google EXCEPT !.query = <<<<"utm_", "source">>>>],
      [Google EXCEPT !.host = "example.com"] }

SelQ == <<"input", "name", "q">>

\* What the parser emits (ExtractSemanticActions), without the sequence id:
\* navigates from meta events; inputs from custom events (selector, no
\* attributes) and from rrweb input events (no selector, the node's tag and
\* attributes), one of them with a host name as the text typed; clicks and
\* keypresses from custom events.
ParsedShapes ==
    { [ActionType |-> ActionNavigate, Value |-> u, Selector |-> SelWindow,
       Tag |-> "", Name |-> "", InteractionRank |-> RankHigh] : u \in URLs }
    \cup { [ActionType |-> ActionInput, Value |-> Text(v), Selector |-> t.sel,
            Tag |-> t.tag, Name |-> t.name, InteractionRank |-> RankHigh] :
            v \in {"c", "cats"},
            t \in { [sel |-> SelQ, tag |-> "input", name |-> ""],
                    [sel |-> <<"#a">>, tag |-> "", name |-> ""],
                    [sel |-> SelNone, tag |-> "input", name |-> "q"] } }
    \cup { [ActionType |-> ActionInput, Value |-> Text("google.com"), Selector |-> SelQ,
            Tag |-> "input", Name |-> "", InteractionRank |-> RankHigh],
           [ActionType |-> ActionClick, Value |-> Text(""), Selector |-> <<"#btn">>,
            Tag |-> "button", Name |-> "", InteractionRank |-> RankHigh],
           [ActionType |-> ActionClick, Value |-> Text(""), Selector |-> <<"#a">>,
            Tag |-> "div", Name |-> "", InteractionRank |-> RankLow],
           [ActionType |-> ActionKeypress, Value |-> Text("Shift"), Selector |-> SelQ,
            Tag |-> "input", Name |-> "", InteractionRank |-> RankLow] }

\* The parser numbers the actions in the order it emits them.
Numbered(shapes) ==
    [k \in 1..Len(shapes) |->
        [SequenceID |-> k, ActionType |-> shapes[k].ActionType, Value |-> shapes[k].Value,
         Selector |-> shapes[k].Selector, Tag |-> shapes[k].Tag, Name |-> shapes[k].Name,
         InteractionRank |-> shapes[k].InteractionRank]]

QInput(v) ==
    [ActionType |-> ActionInput, Value |-> Text(v), Selector |-> SelQ,
     Tag |-> "input", Name |-> "", InteractionRank |-> RankHigh]

\* The recording of the debounced search: four input events on
\* input[name='q'], then a meta navigation.
DebouncedSearch ==
    Numbered(<<QInput("c"), QInput("ca"), QInput("cat"), QInput("cats"),
               [ActionType |-> ActionNavigate,
                Value |-> [Google EXCEPT !.path = "/search", !.query = <<<<"q">>>>],
                Selector |-> SelWindow, Tag |-> "", Name |-> "",
                InteractionRank |-> RankHigh]>>)

ParsedLists ==
    { Numbered(sh) : sh \in SeqUpTo(ParsedShapes, MaxEvents) } \cup {DebouncedSearch}

InitExtract ==
    /\ InitWorkflowState([Actions |-> <<>>, RetryAttempts |-> 0], "none")
    /\ InitApiState(<<>>)
    /\ par = NoPar
    /\ \E acts \in ParsedLists, tol \in {ToleranceLow, ToleranceMedium, ToleranceHigh} :
          ext = [NoExt EXCEPT !.stage = "parsed", !.tolerance = tol, !.parsed = acts]

\* Lines 183-194: ExtractActions; the outputs of the first two steps are kept
\* beside the returned list, and so is the result of giving the returned list
\* to the post-processing steps once more.
ExtractActions ==
    /\ ext.stage = "parsed"
    /\ ext' = [ext EXCEPT !.stage = "extracted",
                          !.deduped = deduplicateNavigations(ext.parsed),
                          !.debounced = debounceInputs(deduplicateNavigations(ext.parsed)),
                          !.out = PostProcess(ext.parsed, ext.tolerance),
                          !.again = PostProcess(PostProcess(ext.parsed, ext.tolerance),
                                                ext.tolerance)]
    /\ UNCHANGED <<wfVars, apiVars, parVars>>

NextExtract == ExtractActions

SpecExtract == InitExtract /\ [][NextExtract]_vars

\* TestFilterLowValueActions, lines 11-38: the four actions of the test, in
\* order (no selector unless the test gives one, no tag on the scroll).
Shape(type, rank, tag, sel) ==
    [ActionType |-> type, Value |-> Text(""), Selector |-> sel, Tag |-> tag,
     Name |-> "", InteractionRank |-> rank]

highRankAction == Shape(ActionClick, RankHigh, "button", SelNone)

mediumRankAction == Shape(ActionClick, RankMedium, "div", <<".btn">>)

lowRankAction == Shape(ActionClick, RankLow, "div", SelNone)

scrollAction == Shape(ActionScroll, RankLow, "", SelNone)

TestActions == Numbered(<<highRankAction, mediumRankAction, lowRankAction, scrollAction>>)

\* Actions given to filterLowValueActions directly: the test's four, and one
\* for each unconditional rule of lines 484-505.
FilterShapes ==
    { highRankAction, mediumRankAction, lowRankAction, scrollAction,
      Shape(ActionInput, RankHigh, "input", SelNone),
      Shape(ActionInput, RankHigh, "input", SelQ),
      Shape(ActionMediaPlay, RankHigh, "video", <<"video">>),
      Shape(ActionFocus, RankHigh, "input", SelQ),
      Shape(ActionBlur, RankMedium, "input", SelQ),
      Shape(ActionNavigate, RankHigh, "", SelWindow) }

FilterLists ==
    { Numbered(sh) : sh \in SeqUpTo(FilterShapes, MaxEvents) } \cup {TestActions}

\* Lines 62-66: an Extractor built with a tolerance, before the filter runs.
InitFilter ==
    /\ InitWorkflowState([Actions |-> <<>>, RetryAttempts |-> 0], "none")
    /\ InitApiState(<<>>)
    /\ par = NoPar
    /\ \E acts \in FilterLists, tol \in {ToleranceLow, ToleranceMedium, ToleranceHigh} :
          ext = [NoExt EXCEPT !.stage = "unfiltered", !.tolerance = tol, !.parsed = acts]

\* Line 68: filterLowValueActions applied to the list.
FilterLowValue ==
    /\ ext.stage = "unfiltered"
    /\ ext' = [ext EXCEPT !.stage = "filtered",
                          !.out = filterLowValueActions(ext.parsed, ext.tolerance)]
    /\ UNCHANGED <<wfVars, apiVars, parVars>>

NextFilter == FilterLowValue

SpecFilter == InitFilter /\ [][NextFilter]_vars

\* ------------------------------------------------- selector synthesis
\* main.go 1849-1858: Tailwind/Bootstrap utility prefixes.
UtilityPrefixes ==
    { <<"m", "-">>, <<"p", "-">>, <<"t", "e", "x", "t", "-">>, <<"b", "g", "-">>,
      <<"f", "l", "e", "x">>, <<"g", "r", "i", "d">>, <<"w", "-">>, <<"h", "-">>,
      <<"d", "-">>, <<"c", "o", "l", "-">> }

isUtilityClass(c) == \E pre \in UtilityPrefixes : StartsWith(c, pre)

RECURSIVE IndexOf(_, _, _)
\* Position of id in the child list from position k on (lines 1833-1839).
IndexOf(children, id, k) ==
    IF k > Len(children) \/ children[k] = id THEN k ELSE IndexOf(children, id, k + 1)

RECURSIVE GetStructuralPath(_, _)
\* main.go 1815-1847: the path from the element up to body.
GetStructuralPath(nodes, id) ==
    IF id \notin DOMAIN nodes \/ nodes[id].TagName \in {"", "html"} THEN <<"html">>
    ELSE IF nodes[id].TagName = "body" THEN <<"body">>
    ELSE IF nodes[id].ParentID \notin DOMAIN nodes THEN <<nodes[id].TagName>>
    ELSE GetStructuralPath(nodes, nodes[id].ParentID)
             \o <<">", nodes[id].TagName,
                  IndexOf(nodes[nodes[id].ParentID].Children, id, 1)>>

\* main.go 1744-1811: GetRobustSelector of the job-graph builder's registry.
GetRobustSelector(nodes, id) ==
    IF id \notin DOMAIN nodes THEN <<"body">>
    ELSE LET node == nodes[id]
             idVal == AttrSeq(node, "Id")
             valid == SelectSeq(AttrSeq(node, "Class"), LAMBDA c : ~isUtilityClass(c))
         IN  IF idVal # <<>> /\ \A k \in 1..Len(idVal) : idVal[k] \notin {" ", ".", ":"}
             THEN <<"#", idVal>>
             ELSE IF AttrStr(node, "Name") # ""
             THEN <<node.TagName, "name", AttrStr(node, "Name")>>
             ELSE IF AttrStr(node, "DataTestid") # ""
             THEN <<node.TagName, "data-testid", AttrStr(node, "DataTestid")>>
             ELSE IF AttrStr(node, "AriaLabel") # ""
             THEN <<node.TagName, "aria-label", AttrStr(node, "AriaLabel")>>
             ELSE IF AttrStr(node, "Placeholder") # ""
             THEN <<node.TagName, "placeholder", AttrStr(node, "Placeholder")>>
             ELSE IF Len(valid) > 0 /\ Len(valid) <= 2
             THEN <<node.TagName, ".", valid>>
             ELSE GetStructuralPath(nodes, node.ParentID)

\* Sample ids and class names.
IdOk == <<"o", "k">>

IdGenerated == <<"b", "t", "n", "-", "a", "7", "f", "3", "d", "2">>

IdDotted == <<"a", ".", "b">>

ClassBtn == <<"b", "t", "n">>

ClassNav == <<"n", "a", "v">>

ClassBig == <<"b", "i", "g">>

ClassFlex == <<"f", "l", "e", "x">>

ClassCssInJs == <<"c", "s", "s", "-", "a", "1">>

\* The clicked element: a button, second child of a div under body.
ButtonID == 4

\* The registry after the full snapshot: html > body > div > (span, button),
\* the button carrying the attributes attrs.
Snapshot(attrs) ==
    [k \in 1..5 |->
        IF k = 1 THEN [TagName |-> "html", ParentID |-> 0, Children |-> <<2>>]
        ELSE IF k = 2 THEN [TagName |-> "body", ParentID |-> 1, Children |-> <<3>>]
        ELSE IF k = 3 THEN [TagName |-> "div", ParentID |-> 2, Children |-> <<5, 4>>]
        ELSE IF k = 4 THEN [TagName |-> "button", ParentID |-> 3, Children |-> <<>>,
                            Id |-> attrs.Id, Name |-> attrs.Name,
                            AriaLabel |-> attrs.AriaLabel, Class |-> attrs.Class]
        ELSE [TagName |-> "span", ParentID |-> 3, Children |-> <<>>]]

ButtonAttributes ==
    [Id : {<<>>, IdOk, IdGenerated, IdDotted},
     Name : {"", "q"},
     AriaLabel : {"", "Go"},
     Class : {<<>>, <<ClassBtn>>, <<ClassFlex, ClassBtn>>, <<ClassCssInJs>>,
              <<ClassFlex>>, <<ClassBtn, ClassNav, ClassBig>>}]

\* The extractor's target for an rrweb click on the button: tag and
\* attributes from the registry, no recorded selector.
ButtonTarget(attrs) ==
    [Tag |-> "button", Selector |-> SelNone, Id |-> attrs.Id, Name |-> attrs.Name,
     AriaLabel |-> attrs.AriaLabel, Class |-> attrs.Class]

InitSelector ==
    /\ InitWorkflowState([Actions |-> <<>>, RetryAttempts |-> 0], "none")
    /\ InitApiState(<<>>)
    /\ par = NoPar
    /\ \E attrs \in ButtonAttributes :
          ext = [stage |-> "clicked", attrs |-> attrs, by |-> "", out |-> <<>>]

\* The job-graph builder asks its registry for the clicked node's selector.
RegistrySelects ==
    /\ ext.stage = "clicked"
    /\ ext' = [ext EXCEPT !.stage = "selected", !.by = "GetRobustSelector",
                          !.out = GetRobustSelector(Snapshot(ext.attrs), ButtonID)]
    /\ UNCHANGED <<wfVars, apiVars, parVars>>

\* The extractor synthesizes the selector of the clicked target.
ExtractorSelects ==
    /\ ext.stage = "clicked"
    /\ ext' = [ext EXCEPT !.stage = "selected", !.by = "generateRobustSelector",
                          !.out = generateRobustSelector(ButtonTarget(ext.attrs))]
    /\ UNCHANGED <<wfVars, apiVars, parVars>>

NextSelector == RegistrySelects \/ ExtractorSelects

SpecSelector == InitSelector /\ [][NextSelector]_vars

\* ------------------------------------------------- semantic builder
\* src/main.go holds two builders: one whose main runs Process (229-281) and
\* PostProcess (299-341), one whose main runs Process (1341-1418) and
\* CompressEvents (1447-1494).  A builder is named by its second step.
EventFullSnapshot == 2

EventIncremental == 3

EventMeta == 4

SourceMutation == 0

SourceMouseInteraction == 2

SourceInput == 5

Builders == {"PostProcess", "CompressEvents"}

\* Node ids of the recording: the search field and a div of the full
\* snapshot, a button a mutation adds, and an id that is never registered.
SearchID == 1

DivID == 2

AddedID == 3

UnknownID == 9

IdSearch == <<"s", "e", "a", "r", "c", "h">>

SnapshotNodes ==
    [k \in {SearchID, DivID} |->
        IF k = SearchID THEN [TagName |-> "input", ParentID |-> DivID, Id |-> IdSearch]
        ELSE [TagName |-> "div", ParentID |-> 0]]

AddedNode == [TagName |-> "button", ParentID |-> DivID]

\* Register: the node enters the registry under its id.
Register(nodes, id, node) ==
    [k \in DOMAIN nodes \cup {id} |-> IF k = id THEN node ELSE nodes[k]]

InteractiveTags == {"button", "a", "select", "textarea", "input"}
StylePointer == "cursor: pointer"

\* CalculateInteractionRank (111-131, 1285-1323); the class heuristic of
\* 1312-1318 never applies to the recording's nodes, which carry no class.
CalculateInteractionRank(nodes, id) ==
    IF id \notin DOMAIN nodes THEN RankLow
    ELSE IF nodes[id].TagName \in InteractiveTags THEN RankHigh
    ELSE IF AttrStr(nodes[id], "Role") \in {"button", "link", "menuitem", "checkbox"}
    THEN RankMedium
    ELSE IF AttrStr(nodes[id], "Style") = StylePointer THEN RankMedium
    ELSE RankLow

\* IsInteractable: 107-109 by rank, 1204-1222 by tag and role.
IsInteractable(nodes, id, builder) ==
    IF builder = "PostProcess" THEN CalculateInteractionRank(nodes, id) # RankLow
    ELSE /\ id \in DOMAIN nodes
         /\ \/ nodes[id].TagName \in InteractiveTags
            \/ AttrStr(nodes[id], "Role") \in {"button", "link", "checkbox", "menuitem"}

RECURSIVE BubbleUp(_, _, _, _, _)
\* GetClickableTarget (133-146, 1226-1241): up to five levels.
BubbleUp(nodes, id, currID, level, builder) ==
    IF level >= 5 THEN id
    ELSE IF IsInteractable(nodes, currID, builder) THEN currID
    ELSE IF currID \notin DOMAIN nodes \/ nodes[currID].ParentID = 0 THEN id
    ELSE BubbleUp(nodes, id, nodes[currID].ParentID, level + 1, builder)

GetClickableTarget(nodes, id, builder) == BubbleUp(nodes, id, id, 0, builder)

\* GetRobustSelector of the builders' registry (148-168, 1245-1283): the id
\* unless mixed, the stable classes (the first one at 159-165, all of them at
\* 1259-1275), the tag.
BuilderSelector(nodes, id, builder) ==
    IF id \notin DOMAIN nodes THEN SelNone
    ELSE LET node == nodes[id]
             stable == SelectSeq(AttrSeq(node, "Class"),
                                 LAMBDA c : c # <<>> /\ ~containsNumbersAndLetters(c))
         IN  IF "Id" \in DOMAIN node /\ ~containsNumbersAndLetters(node.Id)
             THEN <<"#", node.Id>>
             ELSE IF stable # <<>>
             THEN IF builder = "PostProcess" THEN <<".", stable[1]>> ELSE <<".", stable>>
             ELSE <<node.TagName>>

\* toSemantic (283-297, 1420-1444).
toSemantic(nodes, id, builder) ==
    IF id \notin DOMAIN nodes THEN [Tag |-> "unknown", Selector |-> <<"unknown">>]
    ELSE [Tag |-> nodes[id].TagName, Selector |-> BuilderSelector(nodes, id, builder)]

NewSemanticBuilder ==
    [nodes |-> <<>>, mutationBuffer |-> <<>>, events |-> <<>>, eventCounter |-> 0]

\* One iteration of Process on event e.
ProcessEvent(b, e, builder) ==
    IF e.Type = EventMeta
    THEN IF builder = "PostProcess" /\ e.Text # <<>>
         THEN [b EXCEPT !.eventCounter = @ + 1,
                        !.events = Append(@, [Seq |-> b.eventCounter + 1, Type |-> "navigate",
                                              Target |-> [Tag |-> "", Selector |-> SelWindow],
                                              Value |-> e.Text, Rank |-> RankHigh,
                                              Context |-> <<>>, Analysis |-> FALSE])]
         ELSE b
    ELSE IF e.Type = EventFullSnapshot
    THEN [b EXCEPT !.nodes = SnapshotNodes]
    ELSE IF e.Type # EventIncremental THEN b
    ELSE IF e.Source = SourceMutation
    THEN LET nodes == Register(b.nodes, e.ID, AddedNode)
         IN  [b EXCEPT !.nodes = nodes,
                       !.mutationBuffer =
                           IF IsInteractable(nodes, e.ID, builder)
                           THEN Append(@, toSemantic(nodes, e.ID, builder)) ELSE @]
    ELSE IF e.Source \in {SourceMouseInteraction, SourceInput}
    THEN LET aType == IF e.Source = SourceInput THEN "input" ELSE "click"
             targetID == GetClickableTarget(b.nodes, e.ID, builder)
             rank == CalculateInteractionRank(b.nodes, targetID)
             noise == /\ rank = RankLow
                      /\ b.mutationBuffer = <<>>
                      /\ builder = "PostProcess" => aType = "click"
             evt == [Seq |-> b.eventCounter + 1, Type |-> aType,
                     Target |-> toSemantic(b.nodes, targetID, builder),
                     Value |-> e.Text, Rank |-> rank, Context |-> b.mutationBuffer,
                     Analysis |-> FALSE]
         IN  IF noise
             THEN [b EXCEPT !.eventCounter = @ + 1, !.mutationBuffer = <<>>]
             ELSE [b EXCEPT !.eventCounter = @ + 1, !.mutationBuffer = <<>>,
                            !.events = Append(@, evt)]
    ELSE b

RECURSIVE ProcessFrom(_, _, _, _)
ProcessFrom(b, events, k, builder) ==
    IF k > Len(events) THEN b
    ELSE ProcessFrom(ProcessEvent(b, events[k], builder), events, k + 1, builder)

\* Process (229-281, 1341-1418).
Process(b, events, builder) == ProcessFrom(b, events, 1, builder)

ValueEn == <<"e", "n">>

ValueEnter == <<"E", "n", "t", "e", "r">>

\* One iteration of PostProcess / CompressEvents: evt joins compressed.  The
\* cleaning of the attribute map leaves tag and selector as they are.
CompressEvent(compressed, evt, builder) ==
    LET prev == compressed[Len(compressed)]
    IN  IF /\ compressed # <<>>
           /\ prev.Type = "input" /\ evt.Type = "input"
           /\ prev.Target.Selector = evt.Target.Selector
        THEN [compressed EXCEPT ![Len(compressed)].Value = evt.Value]
        ELSE LET fixed ==
                     IF evt.Type = "input" /\ evt.Value = ValueEn /\ evt.Target.Tag = "unknown"
                     THEN [evt EXCEPT !.Type = "keypress", !.Value = ValueEnter,
                                      !.Target.Selector =
                                          IF compressed # <<>> THEN prev.Target.Selector ELSE @]
                     ELSE evt
             IN  Append(compressed,
                        [fixed EXCEPT !.Context = <<>>,
                                      !.Analysis = /\ builder = "PostProcess"
                                                   /\ fixed.Type = "input"
                                                   /\ Len(fixed.Value) > 3])

RECURSIVE CompressFrom(_, _, _, _)
CompressFrom(compressed, events, k, builder) ==
    IF k > Len(events) THEN compressed
    ELSE CompressFrom(CompressEvent(compressed, events[k], builder), events, k + 1, builder)

\* PostProcess (299-341) and CompressEvents (1447-1494).
CompressEvents(events, builder) == CompressFrom(<<>>, events, 1, builder)

RRWebEvent(type, source, id, text) ==
    [Type |-> type, Source |-> source, ID |-> id, Text |-> text]

FullSnapshotEvent == RRWebEvent(EventFullSnapshot, 0, 0, <<>>)

InputEvent(id, text) == RRWebEvent(EventIncremental, SourceInput, id, text)

\* What follows the full snapshot in a recording.
RecordedEvents ==
    { RRWebEvent(EventMeta, 0, 0, <<"x">>),
      RRWebEvent(EventIncremental, SourceMutation, AddedID, <<>>),
      RRWebEvent(EventIncremental, SourceMouseInteraction, DivID, <<>>),
      InputEvent(SearchID, <<"c">>),
      InputEvent(SearchID, <<"c", "a", "t", "s">>),
      InputEvent(UnknownID, ValueEn) }

InitBuilder ==
    /\ InitWorkflowState([Actions |-> <<>>, RetryAttempts |-> 0], "none")
    /\ InitApiState(<<>>)
    /\ par = NoPar
    /\ \E builder \in Builders, evs \in SeqUpTo(RecordedEvents, MaxEvents) :
          ext = [stage |-> "recorded", builder |-> builder,
                 rawEvents |-> <<FullSnapshotEvent>> \o evs, b |-> NewSemanticBuilder]

\* main: builder.Process(rawEvents).
BuilderProcess ==
    /\ ext.stage = "recorded"
    /\ ext' = [ext EXCEPT !.stage = "processed",
                          !.b = Process(ext.b, ext.rawEvents, ext.builder)]
    /\ UNCHANGED <<wfVars, apiVars, parVars>>

\* main: builder.PostProcess() / builder.CompressEvents().
BuilderCompress ==
    /\ ext.stage = "processed"
    /\ ext' = [ext EXCEPT !.stage = "compressed",
                          !.b.events = CompressEvents(ext.b.events, ext.builder)]
    /\ UNCHANGED <<wfVars, apiVars, parVars>>

NextBuilder == BuilderProcess \/ BuilderCompress

SpecBuilder == InitBuilder /\ [][NextBuilder]_vars

\* ------------------------------------------------- template generation
\* fmt.Sprintf("%q", s).
Quoted(str) == <<"quoted", str>>

\* The orders in which a range over the map may visit its keys.
IterationOrders(variables) ==
    { o \in [1..Cardinality(DOMAIN variables) -> DOMAIN variables] :
          \A a, b \in DOMAIN o : a # b => o[a] # o[b] }

\* part_005 259-264: the first variable, in the order of the iteration, whose
\* value is the action's value replaces it.
ReplaceWithVariable(value, variables, order) ==
    LET hits == SelectSeq(order, LAMBDA name : variables[name] = value)
    IN  IF hits = <<>> THEN value ELSE hits[1]

\* part_005 254-316: GenerateCodeFromAction with its variables map, the
\* result as the template and its arguments.
GenerateCodeWithVariables(action, variables, order) ==
    LET selector == Quoted(action.Selector)
        replaced == ReplaceWithVariable(action.Value, variables, order)
        value == IF action.ActionType = ActionInput /\ replaced = action.Value
                 THEN Quoted(replaced) ELSE replaced
    IN  IF action.ActionType = ActionNavigate
        THEN IF action.Value \in DOMAIN variables
             THEN <<"NavigateTemplate", action.Value, variables[action.Value]>>
             ELSE <<"NavigateTemplate", action.Value, Quoted(action.Value)>>
        ELSE IF action.ActionType = ActionClick
        THEN <<"ClickTemplate",
               IF action.Text = "" THEN action.Selector ELSE action.Text, selector>>
        ELSE IF action.ActionType = ActionInput
        THEN <<"InputTemplate", action.Selector, selector, value>>
        ELSE IF action.ActionType = ActionKeypress
        THEN <<"KeypressTemplate", action.Value,
               IF action.Value = "Enter" THEN "Enter" ELSE action.Value>>
        ELSE IF action.ActionType = ActionDblClick
        THEN <<"DblClickTemplate", action.Selector, selector>>
        ELSE IF action.ActionType = ActionRightClick
        THEN <<"RightClickTemplate", action.Selector, selector>>
        ELSE IF action.ActionType = ActionSelect
        THEN <<"SelectTemplate", action.Value, selector>>
        ELSE IF action.ActionType = ActionScroll
        THEN <<"ScrollTemplate", action.Selector, selector>>
        ELSE IF action.ActionType = ActionFocus
        THEN <<"// Focus", action.Selector, selector>>
        ELSE IF action.ActionType = ActionBlur
        THEN <<"// Blur", action.Selector, selector>>
        ELSE <<"// Unsupported action type", action.ActionType>>

TemplateActions ==
    [ActionType : {ActionNavigate, ActionClick, ActionInput, ActionKeypress, ActionDblClick,
                   ActionRightClick, ActionSelect, ActionScroll, ActionFocus, ActionBlur,
                   ActionSubmit},
     Value : {"cats", "Enter"},
     Selector : {"#q"},
     Text : {"", "Search"}]

\* Parameter maps: variable name to recorded value.
ParameterMaps ==
    UNION { [names -> {"cats", "dogs"}] : names \in SUBSET {"query", "animal"} }

InitTemplate ==
    /\ InitWorkflowState([Actions |-> <<>>, RetryAttempts |-> 0], "none")
    /\ InitApiState(<<>>)
    /\ par = NoPar
    /\ \E action \in TemplateActions, variables \in ParameterMaps :
          ext = [stage |-> "ready", action |-> action, variables |-> variables,
                 first |-> NoCode, second |-> NoCode]

\* A call of GenerateCodeFromAction(action, parameters).
GenerateOnce ==
    /\ ext.stage = "ready"
    /\ \E order \in IterationOrders(ext.variables) :
          ext' = [ext EXCEPT !.stage = "once",
                    !.first = GenerateCodeWithVariables(ext.action, ext.variables, order)]
    /\ UNCHANGED <<wfVars, apiVars, parVars>>

\* Another call with the same action and the same parameters.
GenerateAgain ==
    /\ ext.stage = "once"
    /\ \E order \in IterationOrders(ext.variables) :
          ext' = [ext EXCEPT !.stage = "twice",
                    !.second = GenerateCodeWithVariables(ext.action, ext.variables, order)]
    /\ UNCHANGED <<wfVars, apiVars, parVars>>

NextTemplate == GenerateOnce \/ GenerateAgain

SpecTemplate == InitTemplate /\ [][NextTemplate]_vars

\* ------------------------------------------------ clickable-ancestor walk
\* A chain of MaxDepth nodes, node k the child of node k + 1; the last node is
\* the root (ParentID 0) or, in a cyclic parent map, the child of node 1.
MaxDepth == 6

NodeKinds == {"div", "button", "styled"}

ChainNode(kind, parent) ==
    IF kind = "styled"
    THEN [TagName |-> "div", ParentID |-> parent, Style |-> StylePointer]
    ELSE [TagName |-> kind, ParentID |-> parent]

ChainRegistry(kinds, cyclic) ==
    [k \in 1..MaxDepth |->
        ChainNode(kinds[k], IF k < MaxDepth THEN k + 1 ELSE IF cyclic THEN 1 ELSE 0)]

InitClickable ==
    /\ InitWorkflowState([Actions |-> <<>>, RetryAttempts |-> 0], "none")
    /\ InitApiState(<<>>)
    /\ par = NoPar
    /\ \E kinds \in [1..MaxDepth -> NodeKinds], cyclic \in BOOLEAN, builder \in Builders :
          ext = [stage |-> "pointed", builder |-> builder,
                 nodes |-> ChainRegistry(kinds, cyclic), id |-> 1, out |-> 0]

\* The click handler of Process (245-247, 1364-1366) resolves the target.
ResolveTarget ==
    /\ ext.stage = "pointed"
    /\ ext' = [ext EXCEPT !.stage = "resolved",
                          !.out = GetClickableTarget(ext.nodes, ext.id, ext.builder)]
    /\ UNCHANGED <<wfVars, apiVars, parVars>>

NextClickable == ResolveTarget

SpecClickable == InitClickable /\ [][NextClickable]_vars

\* ------------------------------------------------------- node registries
\* The registry of the selector engine (main.go 1673-1729) keeps NodeInfo
\* records with an ordered child list; the registry of the parser
\* (part_007 532-561) keeps a node map and a parent map.
MaxOps == 4

NodeIDs == {1, 2, 3}

Registries == {"engine", "parser"}

Leaf(k) == [ID |-> k, ChildNodes |-> <<>>]

\* The serialized nodes a snapshot or an addition carries: a single node, or
\* node 1 with node 2 nested in it.
SerializedNodes == {Leaf(k) : k \in NodeIDs} \cup {[ID |-> 1, ChildNodes |-> <<Leaf(2)>>]}

NodeInfo(id, parentID) == [ID |-> id, ParentID |-> parentID, Children |-> <<>>]

RECURSIVE EngineRegister(_, _, _)
RECURSIVE EngineRegisterAll(_, _, _)
\* Register (1693-1711): a fresh NodeInfo replaces the entry, the id is
\* appended to the registered parent's child list, the children follow.
EngineRegister(nodes, node, parentID) ==
    LET put == [k \in DOMAIN nodes \cup {node.ID} |->
                   IF k = node.ID THEN NodeInfo(node.ID, parentID) ELSE nodes[k]]
        linked == IF parentID \in DOMAIN put
                  THEN [put EXCEPT ![parentID].Children = Append(@, node.ID)]
                  ELSE put
    IN  EngineRegisterAll(linked, node.ChildNodes, node.ID)

EngineRegisterAll(nodes, children, parentID) ==
    IF children = <<>> THEN nodes
    ELSE EngineRegisterAll(EngineRegister(nodes, Head(children), parentID),
                           Tail(children), parentID)

\* Remove (1713-1729): nothing for an unknown id; otherwise the id leaves
\* the registered parent's child list and the node map.
EngineRemove(nodes, id) ==
    IF id \notin DOMAIN nodes THEN nodes
    ELSE LET parentID == nodes[id].ParentID
             unlinked == IF parentID \in DOMAIN nodes
                         THEN [nodes EXCEPT ![parentID].Children =
                                   SelectSeq(@, LAMBDA c : c # id)]
                         ELSE nodes
         IN  [k \in DOMAIN unlinked \ {id} |-> unlinked[k]]

RECURSIVE registerNode(_, _, _)
RECURSIVE registerNodes(_, _, _)
\* registerNode (part_007 548-561): the node map entry is set, the parent map
\* entry is set when parentID is not 0, the children follow.
registerNode(nodes, node, parentID) ==
    LET put == [k \in DOMAIN nodes \cup {node.ID} |->
                   IF k = node.ID
                   THEN NodeInfo(node.ID,
                                 IF parentID # 0 THEN parentID
                                 ELSE IF k \in DOMAIN nodes THEN nodes[k].ParentID ELSE 0)
                   ELSE nodes[k]]
    IN  registerNodes(put, node.ChildNodes, node.ID)

registerNodes(nodes, children, parentID) ==
    IF children = <<>> THEN nodes
    ELSE registerNodes(registerNode(nodes, Head(children), parentID),
                       Tail(children), parentID)

NoOp == [op |-> "none", id |-> 0, parentID |-> 0, nested |-> FALSE]

InitRegistry ==
    /\ InitWorkflowState([Actions |-> <<>>, RetryAttempts |-> 0], "none")
    /\ InitApiState(<<>>)
    /\ par = NoPar
    /\ \E registry \in Registries :
          ext = [stage |-> "open", registry |-> registry, nodes |-> <<>>,
                 prev |-> <<>>, last |-> NoOp, before |-> NoOp, ops |-> 0]

\* A full snapshot (1908, part_007 522-529) registers its root under parent
\* 0; a mutation's addition (1916-1918, part_007 539-545) registers a node
\* under a parent the page holds at that moment.
RegisterOp ==
    /\ ext.stage = "open"
    /\ ext.ops < MaxOps
    /\ \E node \in SerializedNodes :
       \E parentID \in {0} \cup (DOMAIN ext.nodes \ {node.ID}) :
          ext' = [ext EXCEPT
                    !.nodes = IF ext.registry = "engine"
                              THEN EngineRegister(ext.nodes, node, parentID)
                              ELSE registerNode(ext.nodes, node, parentID),
                    !.prev = ext.nodes,
                    !.before = ext.last,
                    !.last = [op |-> "register", id |-> node.ID, parentID |-> parentID,
                              nested |-> node.ChildNodes # <<>>],
                    !.ops = @ + 1]
    /\ UNCHANGED <<wfVars, apiVars, parVars>>

\* A mutation's removal (1919-1921); processIncrementalSnapshot of the
\* parser (part_007 532-546) reads the additions only.
RemoveOp ==
    /\ ext.stage = "open"
    /\ ext.ops < MaxOps
    /\ \E id \in NodeIDs \cup {UnknownID} :
          ext' = [ext EXCEPT
                    !.nodes = IF ext.registry = "engine"
                              THEN EngineRemove(ext.nodes, id)
                              ELSE ext.nodes,
                    !.prev = ext.nodes,
                    !.before = ext.last,
                    !.last = [op |-> "remove", id |-> id, parentID |-> 0, nested |-> FALSE],
                    !.ops = @ + 1]
    /\ UNCHANGED <<wfVars, apiVars, parVars>>

NextRegistry == RegisterOp \/ RemoveOp

SpecRegistry == InitRegistry /\ [][NextRegistry]_vars

\* ------------------------------------------- executor parameter substitution
\* An action value is a sequence of tokens: literal text, or the placeholder
\* {{name}} of a parameter name.
MaxTokens == 2

ParamNames == {"a", "b"}

Lit(str) == [ph |-> FALSE, s |-> str]

Placeholder(name) == [ph |-> TRUE, s |-> name]

SubstTokens == {Lit("a"), Lit("b"), Lit("x"), Placeholder("a"), Placeholder("b")}

RECURSIVE ReplaceAll(_, _, _)
\* strings.ReplaceAll(value, "{{"+paramName+"}}", paramValue).
ReplaceAll(value, paramName, paramValue) ==
    IF value = <<>> THEN <<>>
    ELSE (IF Head(value) = Placeholder(paramName) THEN paramValue ELSE <<Head(value)>>)
         \o ReplaceAll(Tail(value), paramName, paramValue)

RECURSIVE SubstituteFrom(_, _, _, _)
\* The loop of executeAction (642-648) over params in the order the range
\* visits them.
SubstituteFrom(value, params, order, k) ==
    IF k > Len(order) THEN value
    ELSE LET paramName == order[k]
             replaced == ReplaceAll(value, paramName, params[paramName])
         IN  SubstituteFrom(IF replaced = <<Lit(paramName)>> THEN params[paramName]
                            ELSE replaced,
                            params, order, k + 1)

RECURSIVE SubstituteURLFrom(_, _, _, _)
\* The second loop of the navigate case (653-656).
SubstituteURLFrom(url, params, order, k) ==
    IF k > Len(order) THEN url
    ELSE SubstituteURLFrom(ReplaceAll(url, order[k], params[order[k]]),
                           params, order, k + 1)

\* executeAction (639-660): what reaches the driver as URL or text.
SubstitutedValue(action, params, order, urlOrder) ==
    LET value == SubstituteFrom(action.Value, params, order, 1)
    IN  IF action.ActionType = ActionNavigate
        THEN SubstituteURLFrom(value, params, urlOrder, 1)
        ELSE value

ParamMaps ==
    UNION {[names -> SeqUpTo(SubstTokens, 1)] : names \in SUBSET ParamNames}

InitSubstitute ==
    /\ InitWorkflowState([Actions |-> <<>>, RetryAttempts |-> 0], "none")
    /\ InitApiState(<<>>)
    /\ par = NoPar
    /\ \E type \in {ActionNavigate, ActionInput}, value \in SeqUpTo(SubstTokens, MaxTokens),
          params \in ParamMaps :
          ext = [stage |-> "ready", action |-> [ActionType |-> type, Value |-> value],
                 params |-> params, out |-> <<>>]

\* One call of executeAction; each range over the map visits the keys in an
\* order of the runtime's choosing.
ExecuteSubstitution ==
    /\ ext.stage = "ready"
    /\ \E order \in IterationOrders(ext.params), urlOrder \in IterationOrders(ext.params) :
          ext' = [ext EXCEPT !.stage = "substituted",
                             !.out = SubstitutedValue(ext.action, ext.params, order, urlOrder)]
    /\ UNCHANGED <<wfVars, apiVars, parVars>>

NextSubstitute == ExecuteSubstitution

SpecSubstitute == InitSubstitute /\ [][NextSubstitute]_vars

\* ------------------------------------------------------------ parser
\* A raw element of the uploaded array: one that parseEvent rejects, or an
\* event with a timestamp and a type.
Unparseable == [Parses |-> FALSE, Timestamp |-> 0, Type |-> "none"]

RawEvents ==
    {Unparseable} \cup
    {[Parses |-> TRUE, Timestamp |-> t, Type |-> y] : t \in {1, 2}, y \in {"click", "input"}}

\* The loop of Parse (53-60): the events parseEvent accepts, in input order.
ParsedEvents(rawEvents) ==
    LET ok == SelectSeq(rawEvents, LAMBDA raw : raw.Parses)
    IN  [k \in 1..Len(ok) |-> [Timestamp |-> ok[k].Timestamp, Type |-> ok[k].Type]]

\* sort.Slice with the less function of 63-65: the slice rearranged into
\* some order that is non-decreasing in Timestamp.  The library promises no
\* more ("equal elements may be reversed from their original order"): its
\* insertion sort keeps equal elements in place on short slices, its
\* quicksort partitions do not on longer ones.
SortSliceResults(events) ==
    { [k \in 1..Len(events) |-> events[perm[k]]] :
        perm \in { q \in [1..Len(events) -> 1..Len(events)] :
                     /\ \A a, b \in 1..Len(events) : a # b => q[a] # q[b]
                     /\ \A a, b \in 1..Len(events) :
                           a < b => events[q[a]].Timestamp <= events[q[b]].Timestamp } }

InitParse ==
    /\ InitWorkflowState([Actions |-> <<>>, RetryAttempts |-> 0], "none")
    /\ InitApiState(<<>>)
    /\ par = NoPar
    /\ \E rawEvents \in SeqUpTo(RawEvents, MaxEvents) :
          ext = [stage |-> "uploaded", rawEvents |-> rawEvents, events |-> <<>>]

\* Parse (47-68) on a well-formed array.
Parse ==
    /\ ext.stage = "uploaded"
    /\ \E sorted \in SortSliceResults(ParsedEvents(ext.rawEvents)) :
          ext' = [ext EXCEPT !.stage = "parsed", !.events = sorted]
    /\ UNCHANGED <<wfVars, apiVars, parVars>>

NextParse == Parse

SpecParse == InitParse /\ [][NextParse]_vars

\* ------------------------------------------------------ workflow replay
\* BrowserAutomationWorkflow (13-153) as the engine replays it: a function
\* of the input, of the recorded history (the outcome of every activity and
\* the engine clock's readings) and of whatever else the worker process
\* could read, here its wall clock.
ClockReadings == {0, 1}

Histories(n) ==
    [pregenOk : BOOLEAN, initOk : BOOLEAN, actionOk : [1..n -> BOOLEAN],
     shotOk : BOOLEAN, startNow : {0}, endNow : ClockReadings]

ShotPath == "failure.png"

\* A command the workflow hands to the engine.
Command(activity, arg, inp) ==
    [activity |-> activity, arg |-> arg, MaximumAttempts |-> inp.RetryAttempts]

\* Line 31: startTime := workflow.Now(ctx).
StartTimeWallClock(now, wall) == wall

StartTime(now, wall) == now

RECURSIVE OrchestrateFrom(_, _, _, _, _)
\* Lines 81-130: the loop from action k on.
OrchestrateFrom(inp, h, k, res, cmds) ==
    IF k > Len(inp.Actions) THEN [result |-> res, commands |-> cmds]
    ELSE LET action == inp.Actions[k]
             exec == Append(cmds, Command("ExecuteBrowserActionActivity", k, inp))
             signal(c) == IF k < Len(inp.Actions)
                          THEN Append(c, Command("SignalExternalWorkflow", k, inp)) ELSE c
         IN  IF h.actionOk[k]
             THEN OrchestrateFrom(inp, h, k + 1,
                                  [res EXCEPT !.ActionResults = Append(@, SuccessResult(k))],
                                  signal(exec))
             ELSE LET shot == Append(exec, Command("TakeScreenshotActivity", k, inp))
                      failed == FailedResult(k, ErrElementNotFound,
                                             IF h.shotOk THEN ShotPath ELSE "")
                      withResult == [res EXCEPT !.ActionResults = Append(@, failed)]
                  IN  IF ~shouldContinueOnFailure(action)
                      THEN [result |-> [withResult EXCEPT
                                            !.Status = StatusFailed,
                                            !.ErrorMessage = <<action.ActionType, ErrElementNotFound>>],
                            commands |-> shot]
                      ELSE OrchestrateFrom(inp, h, k + 1, withResult, signal(shot))

\* Lines 13-153.
Orchestrate(inp, h, wall) ==
    LET startTime == StartTime(h.startNow, wall)
        running == [Status |-> StatusRunning, ActionResults |-> <<>>,
                    ErrorMessage |-> <<>>, TotalDuration |-> 0]
        pregen == <<Command("PreGenerateCodeActivity", 0, inp),
                    Command("InitializeBrowserActivity", 0, inp)>>
    IN  IF ~h.initOk
        THEN [result |-> [running EXCEPT !.Status = StatusFailed,
                                         !.ErrorMessage = <<"Failed to initialize browser">>],
              commands |-> pregen]
        ELSE LET run == OrchestrateFrom(inp, h, 1, running, pregen)
                 timed == [run.result EXCEPT !.TotalDuration = h.endNow - startTime]
             IN  [result |-> Finalize(timed),
                  commands |-> Append(run.commands, Command("CloseBrowserActivity", 0, inp))]

NoExecution == [result |-> EmptyResult, commands |-> <<>>]

InitReplay ==
    /\ InitWorkflowState([Actions |-> <<>>, RetryAttempts |-> 0], "none")
    /\ InitApiState(<<>>)
    /\ par = NoPar
    /\ \E inp \in WorkflowInputs :
       \E h \in Histories(Len(inp.Actions)) :
          ext = [stage |-> "scheduled", input |-> inp, history |-> h,
                 first |-> NoExecution, replay |-> NoExecution, walls |-> <<>>]

\* The first execution, on some worker at some wall-clock time.
ExecuteFirst ==
    /\ ext.stage = "scheduled"
    /\ \E wall \in ClockReadings :
          ext' = [ext EXCEPT !.stage = "executed",
                             !.first = Orchestrate(ext.input, ext.history, wall),
                             !.walls = <<wall>>]
    /\ UNCHANGED <<wfVars, apiVars, parVars>>

\* A replay of the same history, on some worker at some wall-clock time.
ExecuteReplay ==
    /\ ext.stage = "executed"
    /\ \E wall \in ClockReadings :
          ext' = [ext EXCEPT !.stage = "replayed",
                             !.replay = Orchestrate(ext.input, ext.history, wall),
                             !.walls = Append(@, wall)]
    /\ UNCHANGED <<wfVars, apiVars, parVars>>

NextReplay == ExecuteFirst \/ ExecuteReplay

SpecReplay == InitReplay /\ [][NextReplay]_vars

\* ------------------------------------------------------ LLM key store
\* The handlers' maps runtimeAPIKeys and llmConfigs (part_006 673-674), here
\* for one provider name.  The HTTP server runs every request in a goroutine
\* of its own; a map access takes time, so it has a beginning and an end.
MaxRequests == 2

KeyHandlers == {"SetAPIKey", "DeleteAPIKey", "ExecuteWorkflow"}

MapAccess(map, write, put) == [map |-> map, write |-> write, put |-> put]

\* The map accesses of a handler, in program order: SetAPIKey 1350 and 1355,
\* DeleteAPIKey 1374 and 1375, ExecuteWorkflow 1036 and 1038.
KeyAccesses(handler) ==
    IF handler = "SetAPIKey"
    THEN <<MapAccess("runtimeAPIKeys", TRUE, TRUE), MapAccess("llmConfigs", TRUE, TRUE)>>
    ELSE IF handler = "DeleteAPIKey"
    THEN <<MapAccess("runtimeAPIKeys", TRUE, FALSE), MapAccess("llmConfigs", TRUE, FALSE)>>
    ELSE <<MapAccess("runtimeAPIKeys", FALSE, FALSE), MapAccess("llmConfigs", FALSE, FALSE)>>

CurrentAccess(req) == KeyAccesses(req.handler)[req.step]

\* Request r is inside a map access that another request's access of the
\* same map overlaps, one of the two being a write.
Overlaps(requests, r) ==
    /\ requests[r].inside
    /\ \E q \in DOMAIN requests \ {r} :
          /\ requests[q].inside
          /\ CurrentAccess(requests[q]).map = CurrentAccess(requests[r]).map
          /\ CurrentAccess(requests[q]).write \/ CurrentAccess(requests[r]).write

InitKeyStore ==
    /\ InitWorkflowState([Actions |-> <<>>, RetryAttempts |-> 0], "none")
    /\ InitApiState(<<>>)
    /\ par = NoPar
    /\ \E envKey \in BOOLEAN :
          ext = [stage |-> "serving", requests |-> <<>>,
                 store |-> [runtimeAPIKeys |-> FALSE, llmConfigs |-> envKey]]

\* The server accepts a request and starts its handler.
AcceptRequest ==
    /\ ext.stage = "serving"
    /\ Len(ext.requests) < MaxRequests
    /\ \E handler \in KeyHandlers :
          ext' = [ext EXCEPT !.requests =
                     Append(@, [handler |-> handler, step |-> 1, inside |-> FALSE])]
    /\ UNCHANGED <<wfVars, apiVars, parVars>>

\* A handler reaches its next map access; no lock is taken before it.
BeginAccess ==
    /\ ext.stage = "serving"
    /\ \E r \in DOMAIN ext.requests :
          /\ ~ext.requests[r].inside
          /\ ext.requests[r].step <= Len(KeyAccesses(ext.requests[r].handler))
          /\ ext' = [ext EXCEPT !.requests[r].inside = TRUE]
    /\ UNCHANGED <<wfVars, apiVars, parVars>>

\* The access completes.  A write stores or deletes the key; a read that a
\* write overlapped may see either content; ExecuteWorkflow reads llmConfigs
\* only when runtimeAPIKeys held no key (1036-1040).
EndAccess ==
    /\ ext.stage = "serving"
    /\ \E r \in DOMAIN ext.requests :
          LET req == ext.requests[r]
              acc == CurrentAccess(req)
          IN  /\ req.inside
              /\ \E found \in IF Overlaps(ext.requests, r) THEN BOOLEAN
                                ELSE {ext.store[acc.map]} :
                    ext' = [ext EXCEPT
                              !.store[acc.map] = IF acc.write THEN acc.put ELSE @,
                              !.requests[r].inside = FALSE,
                              !.requests[r].step =
                                  IF ~acc.write /\ acc.map = "runtimeAPIKeys" /\ found
                                  THEN Len(KeyAccesses(req.handler)) + 1
                                  ELSE @ + 1]
    /\ UNCHANGED <<wfVars, apiVars, parVars>>

\* The runtime detects the overlapping accesses and ends the process
\* ("fatal error: concurrent map read and map write").
RuntimeFault ==
    /\ ext.stage = "serving"
    /\ \E r \in DOMAIN ext.requests : Overlaps(ext.requests, r)
    /\ ext' = [ext EXCEPT !.stage = "crashed"]
    /\ UNCHANGED <<wfVars, apiVars, parVars>>

NextKeyStore == AcceptRequest \/ BeginAccess \/ EndAccess \/ RuntimeFault

SpecKeyStore == InitKeyStore /\ [][NextKeyStore]_vars

\* ================================================================ claims
R == result.ActionResults

LoopLeft == wfpc \in {"close", "done"}

ActionOf(k) == input.Actions[k]

StatusRank(st) ==
    IF st = StatusPending THEN 1
    ELSE IF st = StatusRunning THEN 2
    ELSE IF st \in TerminalStatuses THEN 3
    ELSE 0

\* C1: the persisted run status never moves backward along
\* pending -> running -> {success, failed, canceled}, never leaves a terminal
\* status and never changes from one terminal status to another.
C1_StatusMonotone ==
    [][ /\ StatusRank(dbRun'.status) >= StatusRank(dbRun.status)
        /\ (dbRun.status \in TerminalStatuses => dbRun'.status = dbRun.status) ]_vars

\* C2: when the workflow of a run whose initialisation registered a session has
\* reached its end, CloseBrowserActivity has been invoked exactly once for the
\* session and the session map holds no entry for it.
C2_SessionClosedAtEnd ==
    (wfpc = "done" /\ sessionID # "")
        => (closeInvoked = 1 /\ sessionID \notin sessions)

\* C3: if the run is cancelled while actions remain, the workflow's result ends
\* with status canceled and holds no result for an action that had not
\* completed before the cancellation.
C3_CanceledResult ==
    (LoopLeft /\ cancelAt >= 0 /\ cancelAt < N /\ ~broke)
        => (result.Status = StatusCanceled /\ Len(R) = cancelAt)

\* C4: a 5-action run cancelled through CancelRun after its 2nd action: once
\* the stream has closed and CancelRun has returned, the last message carries
\* status canceled with exactly 2 action results and the row is canceled.
C4_CancelMidRun ==
    (N = 5 /\ cancelAt = 2 /\ wsState = "closed" /\ cancelPc = "idle")
        => /\ wsLast.status = StatusCanceled
           /\ wsLast.count = 2
           /\ dbRun.status = StatusCanceled

\* C5: actions are attempted in input order, and at the moment of any effect
\* of action k on the page no attempt of a later action has begun.
C5_EffectsBeforeNextAction ==
    /\ \A k \in 1..N : attempts[k] > 0 => k <= i
    /\ lastEffect[2] <= lastEffect[1]

\* C6 (as stated): after a failed action the run continues iff the action's
\* rank is Low, and a failed navigate or input always stops the run.
C6_ContinueIffLowRank ==
    \A k \in 1..Len(R) :
        (LoopLeft /\ R[k].Status = StatusFailed /\ k < N)
            => /\ (Len(R) > k) <=> (ActionOf(k).InteractionRank = RankLow)
               /\ ActionOf(k).ActionType \in {ActionNavigate, ActionInput}
                    => (Len(R) = k /\ result.Status = StatusFailed)

Continues(action) ==
    \/ action.InteractionRank = RankLow
    \/ action.ActionType \notin {ActionNavigate, ActionInput}

\* C6 (amended): after a failed action the run continues iff the action's rank
\* is Low or its type is neither navigate nor input; a failed navigate or input
\* whose rank is not Low stops the run: status failed, no later action attempted
\* or recorded.
C6_ContinuePolicy ==
    \A k \in 1..Len(R) :
        (LoopLeft /\ R[k].Status = StatusFailed /\ k < N)
            => /\ (Len(R) > k) <=> Continues(ActionOf(k))
               /\ ~Continues(ActionOf(k))
                    => /\ Len(R) = k
                       /\ result.Status = StatusFailed
                       /\ \A j \in (k + 1)..N : attempts[j] = 0

\* C6 witness: a failed action that is not of rank Low was followed by the next
\* action, and the run has left the loop.
C6_Witness ==
    /\ LoopLeft
    /\ \E k \in 1..Len(R) :
          /\ R[k].Status = StatusFailed
          /\ ActionOf(k).InteractionRank # RankLow
          /\ Len(R) > k

AllSuccess == \A k \in 1..Len(R) : R[k].Status = StatusSuccess

\* C7 (as stated): a workflow that returned without having been cancelled has
\* status success iff no fatal failure broke the loop and every recorded result
\* is success; otherwise failed.
C7_FinalStatusAsStated ==
    (wfpc = "done" /\ ~cancelRequested)
        => /\ (result.Status = StatusSuccess) <=> (~broke /\ AllSuccess)
           /\ result.Status \in {StatusSuccess, StatusFailed}

\* C7 (amended): ... has status success iff browser initialisation succeeded,
\* no fatal failure broke the loop and every recorded result is success;
\* otherwise failed, never pending or running.
C7_FinalStatus ==
    (wfpc = "done" /\ ~cancelRequested)
        => /\ (result.Status = StatusSuccess)
                <=> (sessionID # "" /\ ~broke /\ AllSuccess)
           /\ result.Status \in {StatusSuccess, StatusFailed}

\* C7 witness: an uncancelled run returned after a failure that did not break
\* the loop.
C7_Witness ==
    /\ wfpc = "done"
    /\ ~cancelRequested
    /\ sessionID # ""
    /\ ~broke
    /\ ~AllSuccess
    /\ result.Status = StatusFailed

C10_ProviderFailureNotFatal ==
    (resolution.fellBack /\ resolution.kind # "none")
        => resolution.kind = "template"

\* C11: every run_update message sent differs in status or in result count
\* from the message sent before it (prevStatus, prevCount: the handler's
\* lastStatus and lastActionCount at the send), no message follows a message
\* with a terminal status, and after a terminal message the connection is
\* closed.
C11_SendOnlyOnChange ==
    /\ wsLast.sent
          => /\ (wsLast.status # wsLast.prevStatus \/ wsLast.count # wsLast.prevCount)
             /\ wsLast.prevStatus \notin TerminalStatuses
    /\ (wsLast.sent /\ wsLast.status \in TerminalStatuses) => wsState = "closed"

\* C11 witness: a second message was sent for the same status because the
\* number of action results grew, and the stream is still open.
C11_Witness ==
    /\ wsLast.sent
    /\ wsState = "open"
    /\ wsLast.status = wsLast.prevStatus
    /\ wsLast.count > wsLast.prevCount

\* C12: when the workflow has returned and the run's row is failed, the row's
\* error_message is the first non-empty action error in action order, or the
\* workflow's own error message when no action result carries an error; a run
\* whose workflow could not be started keeps the start error.
C12_FirstErrorPersisted ==
    /\ (dbRun # NoRun /\ dbRun.status = StatusFailed /\ wfpc = "done")
          => dbRun.error_message =
                (IF \E k \in 1..Len(R) : R[k].ErrorMessage # <<>>
                 THEN StreamErrorMsg(StatusFailed, R)
                 ELSE result.ErrorMessage)
    /\ (dbRun # NoRun /\ dbRun.status = StatusFailed /\ wfpc = "none")
          => dbRun.error_message = <<"Failed to start workflow">>

\* C13: in a run that is never cancelled, once the workflow has finished the
\* run's row eventually carries the workflow's terminal status.
C13_RowEventuallyTerminal ==
    [](cancelPc = "idle") => ((wfpc = "done") ~> (dbRun.status = result.Status))

\* C14: in every state of a persisted run, started_at is set exactly when the
\* status is past pending, and completed_at is set exactly when the status
\* is terminal.
C14_TimestampsMatchStatus ==
    dbRun # NoRun
        => /\ dbRun.started_at <=> (dbRun.status # StatusPending)
           /\ dbRun.completed_at <=> (dbRun.status \in TerminalStatuses)

\* C15: a run whose action list is empty refuses to start: no workflow is
\* started for it, and its row never reaches running or success.
C15_EmptyRunRefused ==
    (dbRun # NoRun /\ FilterActions(stored) = <<>>)
        => /\ wfpc = "none"
           /\ dbRun.status \notin {StatusRunning, StatusSuccess}

\* C16: when the parallel workflow has returned, a child run was started for
\* every run-config and has finished, and Results[k] is the result of the
\* child of RunConfigs[k], carrying that config's run id; and the workflow is
\* never blocked.
C16_ParallelResultsByPosition ==
    /\ par.pc # "blocked"
    /\ par.pc = "done"
          => \A k \in 1..Len(par.RunConfigs) :
                /\ par.child[k] \in {"closed", "error"}
                /\ par.Results[k].RunID = par.RunConfigs[k].RunID
                /\ par.child[k] = "closed" => par.Results[k] = par.childResult[k]

\* C17: the action list ExtractActions returns has sequence ids exactly
\* 1, 2, ..., N in list order.
C17_SequenceIdsDense ==
    ext.stage = "extracted"
        => \A k \in 1..Len(ext.out) : ext.out[k].SequenceID = k

\* C17 witness: under low tolerance the first parsed action, a Low-rank
\* keypress, was dropped, so every returned action had a parser id above its
\* position; the returned list is not empty.
C17_Witness ==
    /\ ext.stage = "extracted"
    /\ ext.tolerance = ToleranceLow
    /\ Len(ext.parsed) >= 2
    /\ ext.parsed[1].ActionType = ActionKeypress
    /\ Len(ext.out) >= 1
    /\ ext.out[1].SequenceID = 1

\* C18: in the action list the pipeline returns, no two adjacent actions are
\* both input actions on the same selector.
C18_NoAdjacentSameSelectorInputs ==
    ext.stage = "extracted"
        => \A k \in 1..(Len(ext.out) - 1) :
              ~ /\ ext.out[k].ActionType = ActionInput
                /\ ext.out[k + 1].ActionType = ActionInput
                /\ ext.out[k].Selector = ext.out[k + 1].Selector

IsNavigate(a) == a.ActionType = ActionNavigate

\* Two navigates the deduplication treats as one: same normalized URL or same
\* domain.
SameTarget(a, b) ==
    \/ normalizeURL(a.Value) = normalizeURL(b.Value)
    \/ extractDomain(a.Value) = extractDomain(b.Value)

Survives(list, a) == \E k \in 1..Len(list) : list[k].SequenceID = a.SequenceID

\* The last action before position k of the parsed list that is in the output.
LastSurvivorBefore(list, parsed, k) ==
    parsed[CHOOSE j \in 1..(k - 1) :
              /\ Survives(list, parsed[j])
              /\ \A h \in (j + 1)..(k - 1) : ~Survives(list, parsed[h])]

\* C19: in the output of navigate deduplication no two adjacent navigates have
\* the same normalized URL or the same domain; a navigate that directly
\* follows a surviving navigate with the same normalized URL or domain is
\* dropped (only the first is kept), and one that directly follows a surviving
\* navigate to a different domain is kept.
C19_NavigateDedup ==
    ext.stage = "extracted"
        => /\ \A k \in 1..(Len(ext.deduped) - 1) :
                 (IsNavigate(ext.deduped[k]) /\ IsNavigate(ext.deduped[k + 1]))
                     => ~SameTarget(ext.deduped[k], ext.deduped[k + 1])
           /\ \A k \in 2..Len(ext.parsed) :
                 LET prev == LastSurvivorBefore(ext.deduped, ext.parsed, k)
                     curr == ext.parsed[k]
                 IN  (IsNavigate(curr) /\ IsNavigate(prev))
                        => (Survives(ext.deduped, curr) <=> ~SameTarget(prev, curr))
           /\ Len(ext.parsed) >= 1 => Survives(ext.deduped, ext.parsed[1])

\* C19 witness: of three navigates in a row the second went to the domain of
\* the first and was dropped, the third went to another domain and was kept.
C19_Witness ==
    /\ ext.stage = "extracted"
    /\ Len(ext.parsed) = 3
    /\ \A k \in 1..3 : IsNavigate(ext.parsed[k])
    /\ Len(ext.deduped) = 2
    /\ ext.deduped[1].SequenceID = 1
    /\ ext.deduped[2].SequenceID = 3

\* C20: for the recording of four input events on input[name='q'] with values
\* "c", "ca", "cat", "cats" followed by a meta navigation, extraction yields a
\* single input action with value "cats"; the navigation is dropped.
C20_DebouncedSearch ==
    (ext.stage = "extracted" /\ ext.parsed = DebouncedSearch)
        => /\ Len(ext.out) = 1
           /\ ext.out[1].ActionType = ActionInput
           /\ ext.out[1].Value = Text("cats")

\* C21: the post-processing pipeline is idempotent: applied to its own output
\* it returns the same action sequence.
C21_PipelineIdempotent ==
    ext.stage = "extracted" => ext.again = ext.out

\* The unconditional drops of the filter: inputs without a selector, actions
\* without a tag other than navigates, media actions, focus and blur.
UnconditionallyDropped(a) ==
    \/ a.ActionType = ActionInput /\ a.Selector = SelNone
    \/ a.Tag = "" /\ a.ActionType # ActionNavigate
    \/ a.ActionType \in MediaActions
    \/ a.ActionType \in {ActionFocus, ActionBlur}

RanksKept(tolerance) ==
    IF tolerance = ToleranceLow THEN {RankHigh}
    ELSE IF tolerance = ToleranceMedium THEN {RankHigh, RankMedium}
    ELSE {RankHigh, RankMedium, RankLow}

\* C22: of the actions that survive the unconditional drops, the filter keeps
\* exactly those of rank High under tolerance Low, of rank High or Medium under
\* Medium, and all of them under High, in their original order.
C22_FilterByRank ==
    ext.stage = "filtered" =>
        ext.out = SelectSeq(ext.parsed,
                            LAMBDA a : /\ ~UnconditionallyDropped(a)
                                       /\ a.InteractionRank \in RanksKept(ext.tolerance))

\* Medium tolerance over a list with a Medium-rank and a Low-rank click that
\* pass the unconditional rules: the first kept, the second dropped.
C22_Witness ==
    /\ ext.stage = "filtered"
    /\ ext.tolerance = ToleranceMedium
    /\ Len(ext.parsed) = 2
    /\ ext.parsed[1].InteractionRank = RankLow /\ ~UnconditionallyDropped(ext.parsed[1])
    /\ ext.parsed[2].InteractionRank = RankMedium /\ ~UnconditionallyDropped(ext.parsed[2])
    /\ Len(ext.out) = 1
    /\ ext.out[1] = ext.parsed[2]

\* C23: under tolerance High the list of a High-rank button click, a
\* Medium-rank div click, a Low-rank div click and a Low-rank scroll without
\* target is retained whole (4 of 4).
C23_HighToleranceKeepsAll ==
    (ext.stage = "filtered" /\ ext.tolerance = ToleranceHigh /\ ext.parsed = TestActions)
        => Len(ext.out) = 4

C25_GeneratedIdRejected ==
    (ext.stage = "selected" /\ containsNumbersAndLetters(ext.attrs.Id)) =>
        /\ ext.out # <<"#", ext.attrs.Id>>
        /\ (ext.attrs.Name = "" /\ ext.attrs.AriaLabel = "" /\ ext.attrs.Class = <<>>) =>
               ext.out = GetStructuralPath(Snapshot(ext.attrs), ButtonID)

\* The first half of C25 for the extractor's ladder alone.
C25_ExtractorRejectsGeneratedId ==
    (/\ ext.stage = "selected"
     /\ ext.by = "generateRobustSelector"
     /\ containsNumbersAndLetters(ext.attrs.Id)) => ext.out # <<"#", ext.attrs.Id>>

\* The recording of the Enter-key scenario: an input on the search field
\* (selector #search), then an input "en" on a node that is not registered.
EnterScenario ==
    /\ Len(ext.rawEvents) = 3
    /\ ext.rawEvents[2].Source = SourceInput /\ ext.rawEvents[2].ID = SearchID
    /\ ext.rawEvents[3] = InputEvent(UnknownID, ValueEn)

\* C24: an input "en" on an unknown-tag node after an input on #search
\* appears in the extracted sequence as one keypress "Enter" with selector
\* #search, neither as an input nor dropped.
C24_EnterKeyRepaired ==
    (ext.stage = "compressed" /\ EnterScenario) =>
        /\ Len(ext.b.events) = 2
        /\ ext.b.events[2].Type = "keypress"
        /\ ext.b.events[2].Value = ValueEnter
        /\ ext.b.events[2].Target.Selector = <<"#", IdSearch>>

\* C24 for the builder that runs PostProcess.
C24_RepairedByPostProcess ==
    (ext.builder = "PostProcess") => C24_EnterKeyRepaired

\* C26: template code generation is deterministic: for one action and one
\* parameter map every call returns the same code, also when two parameters
\* hold the same recorded value.
C26_TemplateDeterministic ==
    ext.stage = "twice" => ext.first = ext.second

\* C26 for parameter maps in which no two parameters share a value.
C26_DeterministicWithDistinctValues ==
    (\A a, b \in DOMAIN ext.variables :
         a # b => ext.variables[a] # ext.variables[b]) => C26_TemplateDeterministic

\* The steps at which an activity is started.
InitStarts == wfpc = "init" /\ wfpc' # "init"

ActionStarts == \E k \in DOMAIN attempts : attempts'[k] > attempts[k]

ScreenshotStarts == wfpc = "shot" /\ wfpc' # "shot" /\ ~cancelRequested

CloseStarts == closeInvoked' > closeInvoked

\* C27: the phases of a run are strictly ordered: browser initialisation is
\* not started before pre-generation has finished, no action or screenshot
\* activity is started before initialisation has returned a session id, and
\* the close activity is not started while an action or screenshot activity
\* of the run is still running.
C27_PhasesOrdered ==
    [][ /\ InitStarts => (Len(preGeneratedCode) = N /\ attempts = [k \in 1..N |-> 0])
        /\ (ActionStarts \/ ScreenshotStarts) => sessionID # ""
        /\ CloseStarts => (wfpc = "close" /\ zombies = {}) ]_vars

\* C27 without the requirement on attempts that outlive their timeout.
C27_WorkflowOrder ==
    [][ /\ InitStarts => (Len(preGeneratedCode) = N /\ attempts = [k \in 1..N |-> 0])
        /\ (ActionStarts \/ ScreenshotStarts) => sessionID # ""
        /\ CloseStarts => wfpc = "close" ]_vars

\* PreGenerateCodeActivity ran and returned an error.
PregenFailed == resolution.pregenErr # ""

\* C28: a failure of PreGenerateCodeActivity does not fail the run: the
\* workflow goes on with an empty code map to the browser initialisation, and
\* every action it executes resolves its code on the fly.
C28_PregenFailureNotFatal ==
    PregenFailed =>
        /\ preGeneratedCode = [k \in 1..N |-> NoCode]
        /\ wfpc = "init" => result.Status = StatusRunning
        /\ (wfpc = "done" /\ sessionID = "") =>
               result.ErrorMessage = <<"Failed to initialize browser">>
        /\ resolution.kind \in {"none", "llm", "template"}
        /\ \A k \in 1..Len(R) : R[k].ErrorMessage # <<ErrReadGeneratedCode>>
        /\ (wfpc = "done" /\ sessionID # "" /\ ~cancelRequested /\ ~broke) => Len(R) = N

\* Pre-generation failed and the run of two actions ended in success, the
\* last action on template code generated during execution.
C28_Witness ==
    /\ PregenFailed
    /\ wfpc = "done"
    /\ N = 2
    /\ result.Status = StatusSuccess
    /\ Len(R) = 2
    /\ resolution.kind = "template"

\* A navigate before position k was kept by the deduplication.
KeptNavigateBefore(k) ==
    \E j \in 1..(k - 1) : IsNavigate(ext.parsed[j]) /\ Survives(ext.deduped, ext.parsed[j])

\* The URL of the last navigate kept before position k.
EffectiveURL(k) ==
    ext.parsed[MaxOf({ j \in 1..(k - 1) : /\ IsNavigate(ext.parsed[j])
                                          /\ Survives(ext.deduped, ext.parsed[j]) })].Value

\* A navigate at position k of the parsed list directly after an interaction.
NavigateAfterInteraction(k) ==
    /\ IsNavigate(ext.parsed[k])
    /\ isInteractiveAction(ext.parsed[k - 1].ActionType)

\* C29: a navigate that directly follows an interactive action is dropped
\* exactly when its URL shares a domain with the effective URL, the URL of the
\* last kept navigate; a navigate to another domain is kept (and is then the
\* last kept navigate for what follows).
C29_InteractionRule ==
    ext.stage = "extracted" =>
        \A k \in 2..Len(ext.parsed) :
            NavigateAfterInteraction(k) =>
                (~Survives(ext.deduped, ext.parsed[k])
                    <=> /\ KeptNavigateBefore(k)
                        /\ isSameDomain(ext.parsed[k].Value, EffectiveURL(k)))

\* C29 for recordings that begin with a navigate.
C29_RuleAfterLeadingNavigate ==
    (Len(ext.parsed) >= 1 /\ IsNavigate(ext.parsed[1])) => C29_InteractionRule

\* ---------------------------------------------------------------- C31
RECURSIVE Ancestor(_, _, _)
\* The id reached from id by following j parent links, 0 when the walk ends
\* earlier.
Ancestor(nodes, id, j) ==
    IF j = 0 THEN id
    ELSE LET below == Ancestor(nodes, id, j - 1)
         IN  IF below \notin DOMAIN nodes THEN 0 ELSE nodes[below].ParentID

\* The first id among id and its ancestors up to `links` links whose
\* interaction rank is not Low, id itself when there is none.
FirstRanked(nodes, id, links) ==
    LET hits == {j \in 0..links : /\ Ancestor(nodes, id, j) # 0
                                  /\ CalculateInteractionRank(nodes, Ancestor(nodes, id, j)) # RankLow}
    IN  IF hits = {} THEN id
        ELSE Ancestor(nodes, id, CHOOSE j \in hits : \A h \in hits : j <= h)

\* C31: clickable-ancestor resolution returns the first id, among the id and
\* its ancestors up to and including the one 5 links up, whose interaction
\* rank is not Low, and the original id when none qualifies.
C31_FirstRankedWithinFiveLinks ==
    ext.stage = "resolved" => ext.out = FirstRanked(ext.nodes, ext.id, 5)

\* What the loop of 133-146 does: the id and its ancestors up to 4 links
\* are tested, the ancestor 5 links up is reached and never tested.
C31_FirstRankedWithinFourLinks ==
    (ext.stage = "resolved" /\ ext.builder = "PostProcess")
        => ext.out = FirstRanked(ext.nodes, ext.id, 4)

\* The walk ends on a cyclic parent map.
C31_CyclicResolved ==
    /\ ext.stage = "resolved"
    /\ ext.nodes[MaxDepth].ParentID = 1
    /\ ext.out = ext.id

\* ---------------------------------------------------------------- C32
\* C32: registering the same (node, parent) a second time leaves the
\* registry as it was after the first registration: the node entries and
\* the parent's ordered child list, with the node id once, are unchanged.
C32_RegisterIdempotent ==
    (ext.last.op = "register" /\ ext.before = ext.last) => ext.nodes = ext.prev

\* The parser's registry, which keeps no child list, is idempotent.
C32_ParserRegisterIdempotent ==
    (ext.registry = "parser" /\ ext.last.op = "register" /\ ext.before = ext.last)
        => ext.nodes = ext.prev

\* ---------------------------------------------------------------- C33
\* C33: after any sequence of register and remove operations every
\* registered node has no parent or a registered parent, and the removal of
\* an unknown id changes nothing.
C33_ParentsRegistered ==
    /\ \A k \in DOMAIN ext.nodes :
          ext.nodes[k].ParentID = 0 \/ ext.nodes[k].ParentID \in DOMAIN ext.nodes
    /\ (ext.last.op = "remove" /\ ext.last.id \notin DOMAIN ext.prev)
          => ext.nodes = ext.prev

\* The second half alone: the removal of an unknown id is a no-op.
C33_RemoveUnknownIsNoOp ==
    (ext.last.op = "remove" /\ ext.last.id \notin DOMAIN ext.prev)
        => ext.nodes = ext.prev

\* ---------------------------------------------------------------- C34
RECURSIVE ContextPolicy(_, _, _, _, _)
\* The click policy as stated: the emissions (type and context) and the
\* buffer left by the events from k on, b carrying the registry the events
\* before k built, buf the interactable additions since the last emission.
ContextPolicy(b, buf, out, k, builder) ==
    IF k > Len(ext.rawEvents) THEN [out |-> out, buf |-> buf]
    ELSE LET e == ext.rawEvents[k]
             after == ProcessEvent(b, e, builder)
         IN  IF e.Type # EventIncremental
             THEN ContextPolicy(after, buf, out, k + 1, builder)
             ELSE IF e.Source = SourceMutation
             THEN ContextPolicy(after,
                                IF IsInteractable(after.nodes, e.ID, builder)
                                THEN Append(buf, toSemantic(after.nodes, e.ID, builder))
                                ELSE buf,
                                out, k + 1, builder)
             ELSE LET aType == IF e.Source = SourceInput THEN "input" ELSE "click"
                      rank == CalculateInteractionRank(
                                  b.nodes, GetClickableTarget(b.nodes, e.ID, builder))
                  IN  IF aType = "click" /\ rank = RankLow /\ buf = <<>>
                      THEN ContextPolicy(after, <<>>, out, k + 1, builder)
                      ELSE ContextPolicy(after, <<>>,
                                         Append(out, [Type |-> aType, Context |-> buf]),
                                         k + 1, builder)

\* The clicks and inputs the builder emitted, by type and context.
Emitted ==
    LET evs == SelectSeq(ext.b.events, LAMBDA v : v.Type \in {"click", "input"})
    IN  [k \in 1..Len(evs) |-> [Type |-> evs[k].Type, Context |-> evs[k].Context]]

\* C34: every emitted click or input carries as context exactly the
\* interactable nodes buffered since the previous emission, the buffer is
\* empty right after an emission, and the only events discarded are clicks
\* of rank Low that arrive with an empty buffer: no input is discarded.
C34_ContextAndNoisePolicy ==
    ext.stage = "processed" =>
        LET policy == ContextPolicy(NewSemanticBuilder, <<>>, <<>>, 1, ext.builder)
        IN  /\ Emitted = policy.out
            /\ ext.b.mutationBuffer = policy.buf

\* The builder of 229-281, whose noise rule names clicks, follows the policy.
C34_PolicyOfPostProcessBuilder ==
    (ext.stage = "processed" /\ ext.builder = "PostProcess") =>
        LET policy == ContextPolicy(NewSemanticBuilder, <<>>, <<>>, 1, ext.builder)
        IN  /\ Emitted = policy.out
            /\ ext.b.mutationBuffer = policy.buf

\* An emission that carries a buffered addition as its context.
C34_ContextCarried ==
    /\ ext.stage = "processed"
    /\ \E k \in 1..Len(ext.b.events) : ext.b.events[k].Context # <<>>

\* ---------------------------------------------------------------- C35
RECURSIVE ReplacePlaceholders(_, _)
\* Every {{name}} of the raw value replaced by that parameter's value.
ReplacePlaceholders(value, params) ==
    IF value = <<>> THEN <<>>
    ELSE (IF Head(value).ph /\ Head(value).s \in DOMAIN params
          THEN params[Head(value).s] ELSE <<Head(value)>>)
         \o ReplacePlaceholders(Tail(value), params)

\* The substitution as a function of the raw value and the map alone.
StatedSubstitution(raw, params) ==
    IF \E name \in DOMAIN params : raw = <<Lit(name)>>
    THEN params[CHOOSE name \in DOMAIN params : raw = <<Lit(name)>>]
    ELSE ReplacePlaceholders(raw, params)

\* C35: the executor's substitution is a function of the raw action value
\* and the parameter map alone: every {{name}} is replaced by the value of
\* that parameter, the whole value is replaced only when the raw value equals
\* a parameter name, and the order in which parameters are visited does not
\* change the result.
C35_SubstitutionIsOrderFree ==
    ext.stage = "substituted" => ext.out = StatedSubstitution(ext.action.Value, ext.params)

\* With parameter values that are not empty and hold neither a placeholder
\* nor a parameter name the statement holds.
C35_PlainValues ==
    (/\ ext.stage = "substituted"
     /\ \A name \in DOMAIN ext.params :
           /\ ext.params[name] # <<>>
           /\ \A k \in 1..Len(ext.params[name]) :
                 /\ ~ext.params[name][k].ph
                 /\ ext.params[name][k].s \notin ParamNames)
        => ext.out = StatedSubstitution(ext.action.Value, ext.params)

\* ---------------------------------------------------------------- C36
RECURSIVE StableSorted(_)
\* The events in non-decreasing timestamp order, equal timestamps in input
\* order: each event is placed behind the events before it that are not later.
StableSorted(events) ==
    IF events = <<>> THEN <<>>
    ELSE LET n == Len(events)
             last == events[n]
             front == StableSorted(SubSeq(events, 1, n - 1))
         IN  SelectSeq(front, LAMBDA e : e.Timestamp <= last.Timestamp)
             \o <<last>>
             \o SelectSeq(front, LAMBDA e : e.Timestamp > last.Timestamp)

\* C36: after Parse the events are in non-decreasing timestamp order, events
\* with equal timestamps keep their relative input order, and unparseable
\* elements are skipped without failing the parse.
C36_StableTimestampOrder ==
    ext.stage = "parsed" => ext.events = StableSorted(ParsedEvents(ext.rawEvents))

\* Without the stability: timestamp order, and exactly the parseable
\* events are kept.
C36_TimestampOrder ==
    ext.stage = "parsed" =>
        /\ \A a, b \in 1..Len(ext.events) :
              a < b => ext.events[a].Timestamp <= ext.events[b].Timestamp
        /\ Len(ext.events) = Len(ParsedEvents(ext.rawEvents))
        /\ \A e \in RawEvents :
              Len(SelectSeq(ext.events, LAMBDA v : v.Timestamp = e.Timestamp /\ v.Type = e.Type))
                = Len(SelectSeq(ext.rawEvents, LAMBDA raw : raw.Parses /\ raw = e))

C38_ProgressSnapshots ==
    /\ [](/\ Len(R) <= N
          /\ \A k \in 1..Len(R) :
                /\ R[k].SequenceID = k
                /\ R[k].ActionID = k
                /\ R[k].ScreenshotPath # "" => R[k].Status = StatusFailed)
    /\ [][\/ result.ActionResults' = R
          \/ /\ Len(result.ActionResults') = Len(R) + 1
             /\ SubSeq(result.ActionResults', 1, Len(R)) = R]_vars

\* A snapshot with a failed first action, its screenshot, and a successful
\* second action.
C38_FailedThenSucceeded ==
    /\ Len(R) = 2
    /\ R[1].Status = StatusFailed
    /\ R[1].ScreenshotPath # ""
    /\ R[2].Status = StatusSuccess

\* ---------------------------------------------------------------- C39
\* C39: no action or screenshot attempt uses the session's page after
\* CloseBrowserActivity has closed the session, and no two attempts of a run
\* work on the page at the same time: no attempt is still running when the
\* session is closed, and none is running when the next attempt or the
\* screenshot starts.
C39_PageUseExclusive ==
    /\ []((closeInvoked > 0 /\ sessionID \notin sessions) => zombies = {})
    /\ [][(ActionStarts \/ ScreenshotStarts) => zombies = {}]_vars

\* The part that does not depend on attempts outliving their timeout: an
\* attempt or a screenshot starts only while the session is registered.
C39_StartsOnOpenSession ==
    [][((ActionStarts \/ ScreenshotStarts) /\ ~cancelRequested)
          => sessionID \in sessions]_vars

\* ---------------------------------------------------------------- C40
\* C40: concurrent requests never access the runtime key store
\* unsynchronised: a write by SetAPIKey or DeleteAPIKey never overlaps another
\* write or a read of the same map by a request handled at the same time.
C40_KeyStoreAccessExclusive ==
    \A r \in DOMAIN ext.requests : ~Overlaps(ext.requests, r)

====
